---- MODULE Spec2Model ----
(***************************************************************************)
(* A model of @finsys/core: the field reference resolver and the dynamic   *)
(* title transform (survey-generator.ts), the expression evaluator         *)
(* (utils.ts) and the React Hook Form schema compiler (rhf-generator.ts).  *)
(*                                                                         *)
(* JavaScript values are records [t, v]: t is the result of typeof (with   *)
(* "null" kept apart from "object"), v the value written as a string.      *)
(* JavaScript objects are functions from property names to such values.    *)
(***************************************************************************)
EXTENDS Integers, Sequences, FiniteSets, TLC

VARIABLES
    fields,     \* the resolver's second argument: Record<string, FieldData>
    page,       \* the resolver's first argument: a PageConfig
    resolved,   \* what resolvePageFields did: [state, threw, fields, warnings]
    config,     \* generateRHFSchema's argument: a UnifiedFormConfig
    output,     \* what generateRHFSchema did: [state, error, ...]
    expression, \* evaluateExpression's first argument
    data,       \* evaluateExpression's second argument
    result,     \* what evaluateExpression did: [state, outcome, value, given]
    grouped,    \* what groupFieldsByCategory returned: [state, groups]
    submitted,  \* safeParse's argument: the submitted data object
    validation, \* what safeParse did: [state, schema, step, outcome, success, issues]
    step,       \* getStepDefaultValues' first argument: an RHFStep
    allDefaults, \* getStepDefaultValues' second argument: a defaults map
    stepDefaults, \* what getStepDefaultValues returned: [state, values]
    clock,      \* the date new Date() returns: [y, m, d]
    labels,     \* what getPastMonthLabel answered, by monthsAgo
    calls       \* the safeParse calls in progress on one schema, by caller

vars == <<fields, page, resolved, config, output, expression, data, result, grouped, submitted, validation, step, allDefaults, stepDefaults, clock, labels, calls>>

---------------------------------------------------------------------------
(* JavaScript values of field properties *)

Str(s) == [t |-> "string", v |-> s]

Bool(b) == [t |-> "boolean", v |-> IF b THEN "true" ELSE "false"]

Num(s) == [t |-> "number", v |-> s]

Undefined == [t |-> "undefined", v |-> ""]

Null == [t |-> "null", v |-> ""]

\* A nested object or array, v naming what it holds.
ObjectValue == [t |-> "object", v |-> ""]

Arr(id) == [t |-> "array", v |-> id]

EmptyObject == [k \in {} |-> Undefined]

\* obj[k]: the own property, undefined when absent.
Prop(obj, k) == IF k \in DOMAIN obj THEN obj[k] ELSE Undefined

\* { ...a, ...b }: b's properties written over a's.
Spread(a, b) ==
    [k \in DOMAIN a \cup DOMAIN b |-> IF k \in DOMAIN b THEN b[k] ELSE a[k]]

\* const { ref: fieldName, ...overrides } = ref: every property but k.
Rest(obj, k) == [p \in DOMAIN obj \ {k} |-> obj[p]]

\* The properties every plain object inherits from Object.prototype: a lookup
\* fields[name] finds them although they are no keys of the mapping.
ObjectPrototypeKeys == {"constructor", "toString", "valueOf", "hasOwnProperty"}

\* fields[name] as the resolver reads it: [found, def]. An inherited property
\* is a function object: truthy, and spreading it contributes nothing.
Lookup(map, name) ==
    IF name \in DOMAIN map THEN [found |-> TRUE, def |-> map[name]]
    ELSE IF name \in ObjectPrototypeKeys THEN [found |-> TRUE, def |-> EmptyObject]
    ELSE [found |-> FALSE, def |-> EmptyObject]

---------------------------------------------------------------------------
(* utils.ts: month and year labels.  A date is [y, m, d], m counted from 0. *)

MonthNames ==
    <<"January", "February", "March", "April", "May", "June", "July",
      "August", "September", "October", "November", "December">>

IsLeapYear(y) == (y % 4 = 0 /\ y % 100 # 0) \/ y % 400 = 0

DaysInMonth(y, m) ==
    IF m = 1 THEN (IF IsLeapYear(y) THEN 29 ELSE 28)
    ELSE IF m \in {3, 5, 8, 10} THEN 30 ELSE 31

\* Date.prototype.setMonth: the month is brought back into 0..11 by moving the
\* year, and a day past the end of that month rolls over into the next one.
SetMonth(date, month) ==
    LET y == date.y + (month \div 12)
        m == month % 12
        dim == DaysInMonth(y, m)
    IN  IF date.d <= dim THEN [y |-> y, m |-> m, d |-> date.d]
        ELSE IF m = 11 THEN [y |-> y + 1, m |-> 0, d |-> date.d - dim]
        ELSE [y |-> y, m |-> m + 1, d |-> date.d - dim]

getPastMonthLabel(monthsAgo, today) ==
    MonthNames[SetMonth(today, today.m - monthsAgo).m + 1]

getPastYearLabel(yearsAgo, today) == ToString(today.y - yearsAgo)

---------------------------------------------------------------------------
(* utils.ts: evaluateExpression.                                           *)
(* A string is a sequence of one-character strings.  The expression is     *)
(* rewritten as the two replace calls rewrite it, and the text they give   *)
(* is tokenized, parsed and evaluated as the body "return <text>;" of a    *)
(* non-strict function: the part of JavaScript the characters of the model *)
(* can spell.                                                              *)

\* A JavaScript value while an expression is evaluated: [t, n, s], t the type
\* ("NaN" apart from "number"), n a number or 0/1 for a boolean, s a string.
\* A "throw" stands for an operand whose evaluation raised a ReferenceError.
V(t, n, s) == [t |-> t, n |-> n, s |-> s]

JsUndefined == V("undefined", 0, <<>>)

JsNull == V("null", 0, <<>>)

JsNaN == V("NaN", 0, <<>>)

JsNumber(n) == V("number", n, <<>>)

JsBoolean(b) == V("boolean", IF b THEN 1 ELSE 0, <<>>)

JsString(s) == V("string", 0, s)

JsObject == V("object", 0, <<>>)

JsThrow == V("throw", 0, <<>>)

\* The UTF-16 code units of the characters strings of the model hold.
CodeUnit ==
    (" " :> 32) @@ ("!" :> 33) @@ ("'" :> 39) @@ ("(" :> 40) @@ (")" :> 41)
    @@ ("1" :> 49) @@ ("5" :> 53) @@ (";" :> 59) @@ ("<" :> 60) @@ ("=" :> 61)
    @@ (">" :> 62) @@ ("O" :> 79) @@ ("[" :> 91) @@ ("]" :> 93) @@ ("a" :> 97)
    @@ ("b" :> 98) @@ ("c" :> 99) @@ ("e" :> 101) @@ ("f" :> 102) @@ ("h" :> 104)
    @@ ("i" :> 105) @@ ("j" :> 106) @@ ("l" :> 108) @@ ("n" :> 110) @@ ("o" :> 111)
    @@ ("r" :> 114) @@ ("s" :> 115) @@ ("t" :> 116) @@ ("u" :> 117) @@ ("v" :> 118)
    @@ ("w" :> 119) @@ ("{" :> 123) @@ ("}" :> 125)

Digits == {"1", "5"}

DigitValue == ("1" :> 1) @@ ("5" :> 5)

Letters == {"a", "e", "f", "h", "i", "l", "n", "o", "r", "s", "t", "u", "v", "w"}

Whitespace == {" "}

RECURSIVE DecimalValue(_)
DecimalValue(s) ==
    IF s = <<>> THEN 0
    ELSE 10 * DecimalValue(SubSeq(s, 1, Len(s) - 1)) + DigitValue[s[Len(s)]]

\* String.prototype.trim
RECURSIVE Trim(_)
Trim(s) ==
    IF s = <<>> THEN s
    ELSE IF s[1] \in Whitespace THEN Trim(Tail(s))
    ELSE IF s[Len(s)] \in Whitespace THEN Trim(SubSeq(s, 1, Len(s) - 1))
    ELSE s

\* The first position from i on that holds c, 0 when there is none.
RECURSIVE IndexFrom(_, _, _)
IndexFrom(s, c, i) ==
    IF i > Len(s) THEN 0
    ELSE IF s[i] = c THEN i
    ELSE IndexFrom(s, c, i + 1)

\* The access with the key spliced in as it stands between the braces.
ThisAccess_Verbatim(key) == <<"t", "h", "i", "s", "[", "'">> \o key \o <<"'", "]">>

\* `this['${key.trim()}']`
ThisAccess(key) == <<"t", "h", "i", "s", "[", "'">> \o Trim(key) \o <<"'", "]">>

\* expression.replace(/\{([^}]+)\}/g, ...) from position i on: a match is an
\* opening brace, at least one character other than a closing brace, and the
\* first closing brace after them.
RECURSIVE ReplaceVariables(_, _)
ReplaceVariables(s, i) ==
    IF i > Len(s) THEN <<>>
    ELSE LET close == IndexFrom(s, "}", i + 1)
         IN  IF s[i] = "{" /\ close > i + 1
             THEN ThisAccess(SubSeq(s, i + 1, close - 1)) \o ReplaceVariables(s, close + 1)
             ELSE <<s[i]>> \o ReplaceVariables(s, i + 1)

\* The operator mapping without its lookbehind: every = that no = follows is
\* doubled.
RECURSIVE MapOperators_NoLookbehind(_, _)
MapOperators_NoLookbehind(s, i) ==
    IF i > Len(s) THEN <<>>
    ELSE (IF s[i] = "=" /\ (i = Len(s) \/ s[i + 1] # "=")
          THEN <<"=", "=">>
          ELSE <<s[i]>>)
         \o MapOperators_NoLookbehind(s, i + 1)

\* jsExpression.replace(/(?<![<>!=])=(?![=])/g, '=='): the lookbehind and the
\* lookahead read the text before the replacement.
RECURSIVE MapOperators(_, _)
MapOperators(s, i) ==
    IF i > Len(s) THEN <<>>
    ELSE (IF /\ s[i] = "="
             /\ (i = 1 \/ s[i - 1] \notin {"<", ">", "!", "="})
             /\ (i = Len(s) \/ s[i + 1] # "=")
          THEN <<"=", "=">>
          ELSE <<s[i]>>)
         \o MapOperators(s, i + 1)

\* The punctuators the characters can spell, the longest first.
Punctuators ==
    << <<">", ">", ">", "=">>, <<">", ">", ">">>, <<">", ">", "=">>, <<"<", "<", "=">>,
       <<"=", "=", "=">>, <<"!", "=", "=">>, <<">", ">">>, <<"<", "<">>, <<">", "=">>,
       <<"<", "=">>, <<"=", "=">>, <<"!", "=">>, <<"=", ">">>, <<">">>, <<"<">>, <<"=">>,
       <<"!">>, <<"{">>, <<"}">>, <<"[">>, <<"]">>, <<"(">>, <<")">>, <<";">> >>

StartsWith(s, i, w) == i + Len(w) - 1 <= Len(s) /\ SubSeq(s, i, i + Len(w) - 1) = w

\* The end of the run of characters of set S that starts at i.
RECURSIVE RunEnd(_, _, _)
RunEnd(s, i, S) == IF i < Len(s) /\ s[i + 1] \in S THEN RunEnd(s, i + 1, S) ELSE i

\* A token is [k, x]: k is "num", "id", "str", or "punct", x its text (for a
\* string literal, the characters between the quotes); k = "error" ends the
\* tokens of a text that has no tokenization.
Token(k, x) == [k |-> k, x |-> x]

RECURSIVE Tokenize(_, _)
Tokenize(s, i) ==
    IF i > Len(s) THEN <<>>
    ELSE IF s[i] \in Whitespace THEN Tokenize(s, i + 1)
    ELSE IF s[i] \in Digits
    THEN LET j == RunEnd(s, i, Digits)
         IN  IF j < Len(s) /\ s[j + 1] \in Letters
             THEN <<Token("error", <<>>)>>
             ELSE <<Token("num", SubSeq(s, i, j))>> \o Tokenize(s, j + 1)
    ELSE IF s[i] \in Letters
    THEN LET j == RunEnd(s, i, Letters \cup Digits)
         IN  <<Token("id", SubSeq(s, i, j))>> \o Tokenize(s, j + 1)
    ELSE IF s[i] = "'"
    THEN LET j == IndexFrom(s, "'", i + 1)
         IN  IF j = 0 THEN <<Token("error", <<>>)>>
             ELSE <<Token("str", SubSeq(s, i + 1, j - 1))>> \o Tokenize(s, j + 1)
    ELSE LET k == CHOOSE k \in 1..Len(Punctuators) :
                      /\ StartsWith(s, i, Punctuators[k])
                      /\ \A m \in 1..(k - 1) : ~StartsWith(s, i, Punctuators[m])
         IN  <<Token("punct", Punctuators[k])>> \o Tokenize(s, i + Len(Punctuators[k]))

\* The conversions and operators of the language on the values of the model.
\* A value of type "throw" stands for an exception raised by the evaluation,
\* one of type "diverge" for an evaluation that never completes.

JsDiverge == V("diverge", 0, <<>>)

Abrupt(v) == v.t \in {"throw", "diverge"}

ObjectString ==
    <<"[", "o", "b", "j", "e", "c", "t", " ", "O", "b", "j", "e", "c", "t", "]">>

ToBoolean(v) ==
    CASE v.t \in {"undefined", "null", "NaN"} -> FALSE
      [] v.t \in {"boolean", "number"} -> v.n # 0
      [] v.t = "string" -> v.s # <<>>
      [] OTHER -> TRUE

ToPrimitive(v) == IF v.t = "object" THEN JsString(ObjectString) ELSE v

ToNumber(v) ==
    CASE v.t \in {"number", "boolean"} -> JsNumber(v.n)
      [] v.t = "null" -> JsNumber(0)
      [] v.t = "string" ->
            LET digits == Trim(v.s)
            IN  IF \A i \in 1..Len(digits) : digits[i] \in Digits
                THEN JsNumber(DecimalValue(digits))
                ELSE JsNaN
      [] OTHER -> JsNaN

DigitChars == <<"0", "1", "2", "3", "4", "5", "6", "7", "8", "9">>

RECURSIVE NumberToString(_)
NumberToString(n) ==
    IF n < 0 THEN <<"-">> \o NumberToString(0 - n)
    ELSE IF n < 10 THEN <<DigitChars[n + 1]>>
    ELSE NumberToString(n \div 10) \o <<DigitChars[(n % 10) + 1]>>

\* The property key a value converts to.
ToPropertyKey(v) ==
    CASE v.t = "string" -> v.s
      [] v.t = "number" -> NumberToString(v.n)
      [] v.t = "boolean" ->
            (IF v.n = 1 THEN <<"t", "r", "u", "e">> ELSE <<"f", "a", "l", "s", "e">>)
      [] v.t = "null" -> <<"n", "u", "l", "l">>
      [] v.t = "undefined" -> <<"u", "n", "d", "e", "f", "i", "n", "e", "d">>
      [] v.t = "NaN" -> <<"N", "a", "N">>
      [] OTHER -> ObjectString

RECURSIVE StringLess(_, _)
StringLess(a, b) ==
    IF b = <<>> THEN FALSE
    ELSE IF a = <<>> THEN TRUE
    ELSE IF CodeUnit[a[1]] # CodeUnit[b[1]] THEN CodeUnit[a[1]] < CodeUnit[b[1]]
    ELSE StringLess(Tail(a), Tail(b))

\* The abstract relational comparison a < b: "true", "false" or "undefined".
LessThan(a, b) ==
    LET pa == ToPrimitive(a)
        pb == ToPrimitive(b)
        na == ToNumber(pa)
        nb == ToNumber(pb)
    IN  IF pa.t = "string" /\ pb.t = "string"
        THEN (IF StringLess(pa.s, pb.s) THEN "true" ELSE "false")
        ELSE IF na.t = "NaN" \/ nb.t = "NaN" THEN "undefined"
        ELSE IF na.n < nb.n THEN "true" ELSE "false"

\* a === b; two object values are two objects.
StrictEquals(a, b) == a.t = b.t /\ a.t \notin {"NaN", "object"} /\ a = b

\* a == b
LooseEquals(a, b) ==
    IF a.t = b.t THEN StrictEquals(a, b)
    ELSE IF a.t \in {"null", "undefined"} \/ b.t \in {"null", "undefined"}
    THEN a.t \in {"null", "undefined"} /\ b.t \in {"null", "undefined"}
    ELSE LET pa == ToPrimitive(a)
             pb == ToPrimitive(b)
         IN  IF pa.t = "string" /\ pb.t = "string" THEN pa.s = pb.s
             ELSE ToNumber(pa).t = "number" /\ ToNumber(pa) = ToNumber(pb)

RECURSIVE PowerOfTwo(_)
PowerOfTwo(k) == IF k = 0 THEN 1 ELSE 2 * PowerOfTwo(k - 1)

\* ToInt32 and the shift count of the operands of a shift.
ToInt32(v) == IF ToNumber(v).t = "NaN" THEN 0 ELSE ToNumber(v).n

ShiftCount(v) == ToInt32(v) % 32

\* n << k on 32 bits: bit 31 - k of n becomes the sign.
ShiftLeft(n, k) ==
    IF k = 0 THEN n
    ELSE LET unit == PowerOfTwo(31 - k)
             low == IF n % unit = 0 THEN 0 ELSE (n % unit) * PowerOfTwo(k)
         IN  IF (n \div unit) % 2 = 0 THEN low
             ELSE (low - PowerOfTwo(30)) - PowerOfTwo(30)

\* n >> k on 32 bits
ShiftRight(n, k) ==
    IF k = 31 THEN (IF n < 0 THEN 0 - 1 ELSE 0) ELSE n \div PowerOfTwo(k)

BinaryOperators ==
    << {<<"<", "<">>, <<">", ">">>, <<">", ">", ">">>},
       {<<"<">>, <<">">>, <<"<", "=">>, <<">", "=">>},
       {<<"=", "=">>, <<"!", "=">>, <<"=", "=", "=">>, <<"!", "=", "=">>} >>

AssignmentOperators == {<<"<", "<", "=">>, <<">", ">", "=">>, <<">", ">", ">", "=">>}

\* The value of a op b, a evaluated first: the first operand that does not
\* complete decides.  An unsigned right shift is defined on the non-negative
\* numbers only.
Apply(op, a, b) ==
    IF Abrupt(a) THEN a
    ELSE IF Abrupt(b) THEN b
    ELSE CASE op \in {<<"<", "<">>, <<"<", "<", "=">>} ->
                JsNumber(ShiftLeft(ToInt32(a), ShiftCount(b)))
           [] op \in {<<">", ">">>, <<">", ">", "=">>} ->
                JsNumber(ShiftRight(ToInt32(a), ShiftCount(b)))
           [] op \in {<<">", ">", ">">>, <<">", ">", ">", "=">>} /\ ToInt32(a) >= 0 ->
                JsNumber(ShiftRight(ToInt32(a), ShiftCount(b)))
           [] op = <<"<">> -> JsBoolean(LessThan(a, b) = "true")
           [] op = <<">">> -> JsBoolean(LessThan(b, a) = "true")
           [] op = <<"<", "=">> -> JsBoolean(LessThan(b, a) = "false")
           [] op = <<">", "=">> -> JsBoolean(LessThan(a, b) = "false")
           [] op = <<"=", "=">> -> JsBoolean(LooseEquals(a, b))
           [] op = <<"!", "=">> -> JsBoolean(~LooseEquals(a, b))
           [] op = <<"=", "=", "=">> -> JsBoolean(StrictEquals(a, b))
           [] op = <<"!", "=", "=">> -> JsBoolean(~StrictEquals(a, b))

\* The data an expression is evaluated against: [kind, props, s, n], kind its
\* type, props the own properties of an object (or those added to the wrapper
\* of a primitive), s the text of a string, n the value of a number or boolean.
DataObject(props) == [kind |-> "object", props |-> props, s |-> <<>>, n |-> 0]

DataPrimitive(kind, s, n) == [kind |-> kind, props |-> EmptyObject, s |-> s, n |-> n]

\* data || {}: the object the function body sees as this.  A truthy primitive
\* is wrapped, a falsy one replaced by an empty object.
ThisOf(d) ==
    IF \/ d.kind \in {"null", "undefined"}
       \/ d.kind = "string" /\ d.s = <<>>
       \/ d.kind \in {"number", "boolean"} /\ d.n = 0
    THEN DataObject(EmptyObject)
    ELSE d

\* The properties a string has of itself: its length and its characters.
IsStringIndex(s, key) ==
    /\ key # <<>>
    /\ \A i \in 1..Len(key) : key[i] \in Digits
    /\ DecimalValue(key) < Len(s)

IsStringKey(s, key) == key = <<"l", "e", "n", "g", "t", "h">> \/ IsStringIndex(s, key)

StringGet(s, key) ==
    IF key = <<"l", "e", "n", "g", "t", "h">> THEN JsNumber(Len(s))
    ELSE IF IsStringIndex(s, key) THEN JsString(<<s[DecimalValue(key) + 1]>>)
    ELSE JsUndefined

\* this[key]; the keys of the model spell no inherited property.
ThisGet(this, key) ==
    IF this.kind = "string" /\ IsStringKey(this.s, key) THEN StringGet(this.s, key)
    ELSE IF key \in DOMAIN this.props THEN this.props[key]
    ELSE JsUndefined

\* this[key] = v; the properties a string has of itself are read-only.
ThisSet(this, key, v) ==
    IF this.kind = "string" /\ IsStringKey(this.s, key) THEN this
    ELSE [this EXCEPT !.props = Spread(@, key :> v)]

\* The outcome of parsing and evaluating an expression from token p: [ok, v, p,
\* ref, key, this].  ok is false for a text that does not parse; v is the
\* value, p the next token, this the object after the assignments made.  ref
\* tells what the expression refers to: "this", "eval", a property of this
\* ("thisMember", key its name), a property of another value ("otherMember"),
\* an identifier ("id"), the result of a call ("call"), or "none".
ParseFail ==
    [ok |-> FALSE, v |-> JsUndefined, p |-> 0, ref |-> "none", key |-> <<>>,
     this |-> DataObject(EmptyObject)]

Parsed(v, p, this) ==
    [ok |-> TRUE, v |-> v, p |-> p, ref |-> "none", key |-> <<>>, this |-> this]

\* The completion of a statement: [ok, c, v, p, this], c one of "empty",
\* "normal", "return", "throw", "diverge".
Completion(c, v, p, this) == [ok |-> TRUE, c |-> c, v |-> v, p |-> p, this |-> this]

StatementFail ==
    [ok |-> FALSE, c |-> "empty", v |-> JsUndefined, p |-> 0,
     this |-> DataObject(EmptyObject)]

IsPunct(toks, p, x) == p <= Len(toks) /\ toks[p] = Token("punct", x)

IsWord(toks, p, w) == p <= Len(toks) /\ toks[p] = Token("id", w)

ReservedWords == {<<"f", "o", "r">>, <<"r", "e", "t", "u", "r", "n">>}

\* base[key], the base not being this
GetMember(base, key) ==
    IF base.t \in {"undefined", "null"} THEN JsThrow
    ELSE IF base.t = "string" THEN StringGet(base.s, key)
    ELSE JsUndefined

\* The grammar is one recursive operator, Parse, with a case for each of its
\* rules; the operators below name the rules.
RECURSIVE Parse(_, _, _, _, _)

\* A literal, this, an identifier, {} or a parenthesized expression.
ParsePrimary(toks, p, this) == Parse("primary", toks, p, this, 0)

\* The member accesses [key] and the calls (argument) that follow base.
ParsePostfix(toks, base) == Parse("postfix", toks, base.p, base.this, base)

ParseUnary(toks, p, this) == Parse("unary", toks, p, this, 0)

\* The left-associative binary operators: level 1 the shifts, level 2 the
\* relational operators, level 3 the equality operators.
ParseBinary(toks, p, this, level) == Parse("binary", toks, p, this, level)

ParseBinaryRest(toks, left, level) ==
    Parse("binaryRest", toks, left.p, left.this, [left |-> left, level |-> level])

\* target op= value, right-associative.
ParseAssignment(toks, p, this) == Parse("assignment", toks, p, this, 0)

\* A statement: the empty statement, the empty block, return (in a function
\* body only), the loop for(;;) without an exit, or an expression.
ParseStatement(toks, p, this, inFunction) == Parse("statement", toks, p, this, inFunction)

\* The statements from token p to the end of the text.
ParseStatements(toks, p, this, inFunction) == Parse("statements", toks, p, this, inFunction)

\* eval(text), a direct call: [v, this].
Eval(text, this) == Parse("eval", text, 1, this, 0)

Parse(rule, toks, p, this, x) ==
    CASE rule = "primary" ->
        \* eval is the one identifier the model can spell that is declared;
        \* reading another raises a ReferenceError.
        IF p > Len(toks) THEN ParseFail
        ELSE IF toks[p].k = "num"
        THEN Parsed(JsNumber(DecimalValue(toks[p].x)), p + 1, this)
        ELSE IF toks[p].k = "str" THEN Parsed(JsString(toks[p].x), p + 1, this)
        ELSE IF toks[p].k = "id"
        THEN (IF toks[p].x \in ReservedWords THEN ParseFail
              ELSE IF toks[p].x = <<"t", "h", "i", "s">>
              THEN [Parsed(JsObject, p + 1, this) EXCEPT !.ref = "this"]
              ELSE IF toks[p].x = <<"e", "v", "a", "l">>
              THEN [Parsed(JsObject, p + 1, this) EXCEPT !.ref = "eval"]
              ELSE IF toks[p].x = <<"t", "r", "u", "e">>
              THEN Parsed(JsBoolean(TRUE), p + 1, this)
              ELSE IF toks[p].x = <<"f", "a", "l", "s", "e">>
              THEN Parsed(JsBoolean(FALSE), p + 1, this)
              ELSE IF toks[p].x = <<"n", "u", "l", "l">> THEN Parsed(JsNull, p + 1, this)
              ELSE [Parsed(JsThrow, p + 1, this) EXCEPT !.ref = "id"])
        ELSE IF IsPunct(toks, p, <<"{">>) /\ IsPunct(toks, p + 1, <<"}">>)
        THEN Parsed(JsObject, p + 2, this)
        ELSE IF IsPunct(toks, p, <<"(">>)
        THEN LET r == ParseAssignment(toks, p + 1, this)
             IN  IF r.ok /\ IsPunct(toks, r.p, <<")">>) THEN [r EXCEPT !.p = r.p + 1]
                 ELSE ParseFail
        ELSE ParseFail
      [] rule = "postfix" ->
        \* x is the base.  The base is evaluated first, then the key or the
        \* argument; calling anything but eval raises a TypeError, no value
        \* of the model being a function.
        IF ~x.ok THEN ParseFail
        ELSE IF IsPunct(toks, p, <<"[">>)
        THEN LET k == ParseAssignment(toks, p + 1, this)
                 key == ToPropertyKey(k.v)
                 v == IF Abrupt(x.v) THEN x.v
                      ELSE IF Abrupt(k.v) THEN k.v
                      ELSE IF x.ref = "this" THEN ThisGet(k.this, key)
                      ELSE GetMember(x.v, key)
             IN  IF ~k.ok \/ ~IsPunct(toks, k.p, <<"]">>) THEN ParseFail
                 ELSE ParsePostfix(toks,
                          [Parsed(v, k.p + 1, k.this) EXCEPT
                              !.ref = IF x.ref = "this" THEN "thisMember" ELSE "otherMember",
                              !.key = key])
        ELSE IF IsPunct(toks, p, <<"(">>)
        THEN LET a == IF IsPunct(toks, p + 1, <<")">>)
                      THEN Parsed(JsUndefined, p + 1, this)
                      ELSE ParseAssignment(toks, p + 1, this)
                 e == IF x.ref = "eval" /\ ~Abrupt(a.v) /\ a.v.t = "string"
                      THEN Eval(a.v.s, a.this)
                      ELSE [v |-> a.v, this |-> a.this]
                 v == IF Abrupt(x.v) THEN x.v
                      ELSE IF Abrupt(a.v) THEN a.v
                      ELSE IF x.ref = "eval" THEN e.v
                      ELSE JsThrow
             IN  IF ~a.ok \/ ~IsPunct(toks, a.p, <<")">>) THEN ParseFail
                 ELSE ParsePostfix(toks, [Parsed(v, a.p + 1, e.this) EXCEPT !.ref = "call"])
        ELSE x
      [] rule = "unary" ->
        IF IsPunct(toks, p, <<"!">>)
        THEN LET r == ParseUnary(toks, p + 1, this)
             IN  IF ~r.ok THEN ParseFail
                 ELSE Parsed(IF Abrupt(r.v) THEN r.v ELSE JsBoolean(~ToBoolean(r.v)),
                             r.p, r.this)
        ELSE ParsePostfix(toks, ParsePrimary(toks, p, this))
      [] rule = "binary" ->
        \* x is the level.
        IF x = 0 THEN ParseUnary(toks, p, this)
        ELSE LET left == ParseBinary(toks, p, this, x - 1)
             IN  IF left.ok THEN ParseBinaryRest(toks, left, x) ELSE ParseFail
      [] rule = "binaryRest" ->
        \* x is [left, level].
        IF /\ p <= Len(toks)
           /\ toks[p].k = "punct"
           /\ toks[p].x \in BinaryOperators[x.level]
        THEN LET right == ParseBinary(toks, p + 1, this, x.level - 1)
             IN  IF ~right.ok THEN ParseFail
                 ELSE ParseBinaryRest(toks,
                          Parsed(Apply(toks[p].x, x.left.v, right.v), right.p, right.this),
                          x.level)
        ELSE x.left
      [] rule = "assignment" ->
        \* The target is read, the value evaluated, the result written.  The
        \* tokens = and => are left to end the parse as unexpected tokens: the
        \* operator mapping leaves no = that could follow a target.  A call
        \* as the target raises when it has returned.
        LET left == ParseBinary(toks, p, this, 3)
            right == ParseAssignment(toks, left.p + 1, left.this)
            v == Apply(toks[left.p].x, left.v, right.v)
        IN  IF ~left.ok THEN ParseFail
            ELSE IF /\ left.p <= Len(toks)
                    /\ toks[left.p].k = "punct"
                    /\ toks[left.p].x \in AssignmentOperators
            THEN (IF left.ref \in {"none", "this"} \/ ~right.ok THEN ParseFail
                  ELSE IF left.ref = "call"
                  THEN Parsed(IF Abrupt(left.v) THEN left.v ELSE JsThrow,
                              right.p, left.this)
                  ELSE Parsed(v, right.p,
                              IF left.ref = "thisMember" /\ ~Abrupt(v)
                              THEN ThisSet(right.this, left.key, v)
                              ELSE right.this))
            ELSE left
      [] rule = "statement" ->
        \* x tells whether the text is a function body.  A statement ends at
        \* a semicolon or at the end of the text.
        LET isReturn == IsWord(toks, p, <<"r", "e", "t", "u", "r", "n">>)
            e == ParseAssignment(toks, IF isReturn THEN p + 1 ELSE p, this)
            c == IF e.v.t = "throw" THEN "throw"
                 ELSE IF e.v.t = "diverge" THEN "diverge"
                 ELSE IF isReturn THEN "return"
                 ELSE "normal"
            body == ParseStatement(toks, p + 5, this, x)
        IN  IF IsPunct(toks, p, <<";">>) THEN Completion("empty", JsUndefined, p + 1, this)
            ELSE IF IsPunct(toks, p, <<"{">>)
            THEN (IF IsPunct(toks, p + 1, <<"}">>)
                  THEN Completion("empty", JsUndefined, p + 2, this)
                  ELSE StatementFail)
            ELSE IF IsWord(toks, p, <<"f", "o", "r">>)
            THEN (IF /\ IsPunct(toks, p + 1, <<"(">>) /\ IsPunct(toks, p + 2, <<";">>)
                     /\ IsPunct(toks, p + 3, <<";">>) /\ IsPunct(toks, p + 4, <<")">>)
                     /\ body.ok
                  THEN (IF body.c \in {"empty", "normal"}
                        THEN Completion("diverge", JsDiverge, body.p, body.this)
                        ELSE body)
                  ELSE StatementFail)
            ELSE IF isReturn /\ ~x THEN StatementFail
            ELSE IF isReturn /\ (p + 1 > Len(toks) \/ IsPunct(toks, p + 1, <<";">>))
            THEN Completion("return", JsUndefined,
                            IF p + 1 > Len(toks) THEN p + 1 ELSE p + 2, this)
            ELSE IF ~e.ok THEN StatementFail
            ELSE IF e.p > Len(toks) THEN Completion(c, e.v, e.p, e.this)
            ELSE IF IsPunct(toks, e.p, <<";">>) THEN Completion(c, e.v, e.p + 1, e.this)
            ELSE StatementFail
      [] rule = "statements" ->
        \* The first statement that does not complete normally ends the
        \* execution; what follows it is parsed only.
        IF p > Len(toks) THEN Completion("empty", JsUndefined, p, this)
        ELSE LET s == ParseStatement(toks, p, this, x)
                 rest == ParseStatements(toks, s.p, s.this, x)
             IN  IF ~s.ok \/ ~rest.ok THEN StatementFail
                 ELSE IF s.c \in {"return", "throw", "diverge"} \/ rest.c = "empty"
                 THEN [s EXCEPT !.p = rest.p]
                 ELSE rest
      [] rule = "eval" ->
        \* toks is the text.  A text that does not parse raises a SyntaxError
        \* in the caller.
        LET tokens == Tokenize(toks, 1)
            s == ParseStatements(tokens, 1, this, FALSE)
        IN  IF (\E i \in 1..Len(tokens) : tokens[i].k = "error") \/ ~s.ok
            THEN [v |-> JsThrow, this |-> this]
            ELSE [v |-> s.v, this |-> s.this]

ReturnText == <<"r", "e", "t", "u", "r", "n", " ">>

\* What the constructor and the call make of the statements s parsed from
\* toks: [error, value, this].  error is "SyntaxError" when the constructor
\* raises, "thrown" when the call does, "diverges" when the call never
\* returns, "" when it returns value.
RunOutcome(toks, s, this) ==
    IF (\E i \in 1..Len(toks) : toks[i].k = "error") \/ ~s.ok
    THEN [error |-> "SyntaxError", value |-> JsUndefined, this |-> this]
    ELSE IF s.c = "throw" THEN [error |-> "thrown", value |-> JsUndefined, this |-> s.this]
    ELSE IF s.c = "diverge"
    THEN [error |-> "diverges", value |-> JsUndefined, this |-> s.this]
    ELSE [error |-> "", value |-> s.v, this |-> s.this]

RunTokens(toks, this) == RunOutcome(toks, ParseStatements(toks, 1, this, TRUE), this)

\* new Function(`return ${text};`) and its call on this
RunFunction(text, this) == RunTokens(Tokenize(ReturnText \o text \o <<";">>, 1), this)

\* The try block: the two replace calls raise a TypeError on an expression
\* that is no string.
TryEvaluate(expr, d) ==
    IF expr.t # "string"
    THEN [error |-> "TypeError", value |-> JsUndefined, this |-> ThisOf(d)]
    ELSE RunFunction(MapOperators(ReplaceVariables(expr.s, 1), 1), ThisOf(d))

\* The caller's data after the call: the assignments are made to the caller's
\* object; those made to the wrapper of a primitive, or to the empty object
\* that stands for falsy data, are lost.
DataAfter(d, this) == IF d.kind = "object" THEN this ELSE d

\* return !!func.call(data || {}), and return false of the catch block, r
\* being the outcome of the try block.
Answer(d, r) ==
    [outcome |-> IF r.error = "diverges" THEN "diverges" ELSE "returns",
     value |-> r.error = "" /\ ToBoolean(r.value),
     data |-> DataAfter(d, r.this)]

\* evaluateExpression with the guard of the first line returning false.
evaluateExpression_EmptyFalse(expr, d) ==
    IF ~ToBoolean(expr) THEN [outcome |-> "returns", value |-> FALSE, data |-> d]
    ELSE Answer(d, TryEvaluate(expr, d))

\* evaluateExpression(expression, data): [outcome, value, data].  outcome is
\* "returns" when the call returns value, "diverges" when it never returns;
\* data is the caller's data after the call.  Every exception of the try block
\* is caught and answered with false.
evaluateExpression(expr, d) ==
    IF ~ToBoolean(expr) THEN [outcome |-> "returns", value |-> TRUE, data |-> d]
    ELSE Answer(d, TryEvaluate(expr, d))

---------------------------------------------------------------------------
(* survey-generator.ts: the field reference resolver *)

\* normalizeField with each marker normalized on its own.
normalizeField_Unsynced(field) ==
    Spread(field, ("required" :> Bool(Prop(field, "required") # Bool(FALSE)))
                  @@ ("isRequired" :> Bool(Prop(field, "isRequired") # Bool(FALSE))))

normalizeField(field) ==
    LET isRequired == Prop(field, "isRequired") # Bool(FALSE)
                      /\ Prop(field, "required") # Bool(FALSE)
    IN  Spread(field, ("required" :> Bool(isRequired))
                      @@ ("isRequired" :> Bool(isRequired)))

\* The names the pattern /^bank_statement_t(\d+)$/ matches among the names of
\* the model, with parseInt of the digits.
BankStatementMonths ==
    ("bank_statement_t1" :> 1) @@ ("bank_statement_t2" :> 2)
    @@ ("bank_statement_t13" :> 13)

\* field.name.match(...) raises a TypeError unless field.name is a string.
applyDynamicTitlesThrows(field) == Prop(field, "name").t # "string"

\* The transform with the field's own label kept in front of the month.
applyDynamicTitles_OriginalLabel(field, today) ==
    LET name == Prop(field, "name").v
    IN  IF name \in DOMAIN BankStatementMonths
        THEN Spread(field, "displayName" :> Str(Prop(field, "displayName").v \o " ("
                \o getPastMonthLabel(BankStatementMonths[name], today) \o ")"))
        ELSE IF name = "financials"
        THEN Spread(field, "displayName" :> Str("Audited Financial Statement ("
                \o getPastYearLabel(1, today) \o ")"))
        ELSE field

applyDynamicTitles(field, today) ==
    LET name == Prop(field, "name").v
    IN  IF name \in DOMAIN BankStatementMonths
        THEN Spread(field, "displayName" :> Str("Bank Statement ("
                \o getPastMonthLabel(BankStatementMonths[name], today) \o ")"))
        ELSE IF name = "financials"
        THEN Spread(field, "displayName" :> Str("Audited Financial Statement ("
                \o getPastYearLabel(1, today) \o ")"))
        ELSE field

\* The string reference's merge with the literal "ref" for the variable ref.
MergeNamed_Literal(name, fieldDef) == Spread("name" :> Str("ref"), fieldDef)

\* The merge of a reference with overrides, the stored definition written last.
MergeOverrides_DefinitionLast(fieldName, fieldDef, overrides) ==
    Spread(Spread("name" :> fieldName, overrides), fieldDef)

\* { name: ref, ...fieldDef } of a string reference.
MergeNamed(name, fieldDef) == Spread("name" :> name, fieldDef)

\* { name: fieldName, ...fieldDef, ...overrides } of a reference with overrides.
MergeOverrides(fieldName, fieldDef, overrides) ==
    Spread(Spread("name" :> fieldName, fieldDef), overrides)

\* A field reference is [tag, str, obj, definition]: tag is what typeof and the
\* in operator can tell of it ("string", "object", or "null" for null and the
\* other primitives), str the name of a string reference, obj the own
\* properties of an object reference (its ref among them), definition the
\* object held by an inline reference's definition property.
\* The outcome is [threw, dropped, warned, field].
resolveFieldReference(ref, fieldDefs) ==
    LET none == [threw |-> FALSE, dropped |-> TRUE, warned |-> FALSE,
                 field |-> EmptyObject]
        found(f) == [threw |-> FALSE, dropped |-> FALSE, warned |-> FALSE,
                     field |-> f]
    IN  IF ref.tag = "string"
        THEN LET fieldDef == Lookup(fieldDefs, ref.str)
             IN  IF ~fieldDef.found
                 THEN [none EXCEPT !.warned = TRUE]
                 ELSE found(normalizeField(MergeNamed(Str(ref.str), fieldDef.def)))
        ELSE IF ref.tag # "object"
        THEN \* "definition" in ref: a TypeError on null and on a primitive
             [none EXCEPT !.threw = TRUE]
        ELSE IF "definition" \in DOMAIN ref.obj
        THEN found(normalizeField(ref.definition))
        ELSE IF "ref" \in DOMAIN ref.obj
        THEN LET fieldName == ref.obj["ref"]
                 fieldDef == Lookup(fieldDefs, fieldName.v)
                 overrides == Rest(ref.obj, "ref")
             IN  IF ~fieldDef.found
                 THEN [none EXCEPT !.warned = TRUE]
                 ELSE found(normalizeField(
                          MergeOverrides(fieldName, fieldDef.def, overrides)))
        ELSE none

\* The subsequence of s whose elements satisfy keep, in order.
RECURSIVE SelectKept(_, _)
SelectKept(s, keep) ==
    IF s = <<>> THEN <<>>
    ELSE IF keep[1] THEN <<s[1]>> \o SelectKept(Tail(s), Tail(keep))
    ELSE SelectKept(Tail(s), Tail(keep))

\* page.fields.map(resolve).filter(non-null).map(applyDynamicTitles): the
\* three passes run one after the other, so a reference that raises does so
\* before any title is rewritten.  The outcome is [threw, fields, warnings].
resolvePageFields(pg, fieldDefs, today) ==
    LET refs == pg.fields
        r == [i \in 1..Len(refs) |-> resolveFieldReference(refs[i], fieldDefs)]
        kept == SelectKept([i \in 1..Len(refs) |-> r[i].field],
                           [i \in 1..Len(refs) |-> ~r[i].dropped])
        warnings == Cardinality({i \in 1..Len(refs) : r[i].warned})
    IN  IF \E i \in 1..Len(refs) : r[i].threw
        THEN [threw |-> TRUE, fields |-> <<>>, warnings |-> 0]
        ELSE IF \E i \in 1..Len(kept) : applyDynamicTitlesThrows(kept[i])
        THEN [threw |-> TRUE, fields |-> <<>>, warnings |-> warnings]
        ELSE [threw |-> FALSE,
              fields |-> [i \in 1..Len(kept) |-> applyDynamicTitles(kept[i], today)],
              warnings |-> warnings]

---------------------------------------------------------------------------
(* survey-generator.ts: the category grouper *)

\* categories.find(c => c.id === categoryId)?.name || "Other"
RECURSIVE getCategoryName(_, _)
getCategoryName(categoryId, categories) ==
    IF categoryId = Undefined \/ categories = <<>> THEN "Other"
    ELSE IF Str(categories[1].id) = categoryId
    THEN (IF categories[1].name = "" THEN "Other" ELSE categories[1].name)
    ELSE getCategoryName(categoryId, Tail(categories))

\* field.category ?? ""
CategoryOf(field) ==
    IF Prop(field, "category") \in {Undefined, Null} THEN Str("")
    ELSE Prop(field, "category")

\* Grouping by category alone: a field joins the first group that has its
\* category, wherever that group stands.
RECURSIVE GroupFrom_Merging(_, _, _, _)
GroupFrom_Merging(fs, i, groups, categories) ==
    IF i > Len(fs) THEN groups
    ELSE LET category == CategoryOf(fs[i])
             same == {k \in 1..Len(groups) : groups[k].category = category}
         IN  IF same = {}
             THEN GroupFrom_Merging(fs, i + 1,
                      Append(groups,
                          [category |-> category,
                           categoryName |-> getCategoryName(category, categories),
                           fields |-> <<fs[i]>>]),
                      categories)
             ELSE GroupFrom_Merging(fs, i + 1,
                      [groups EXCEPT
                          ![CHOOSE k \in same : \A j \in same : k <= j].fields = Append(@, fs[i])],
                      categories)

\* The loop of groupFieldsByCategory over fs[i..], groups being the groups
\* built so far: the last of them is currentGroup.
RECURSIVE GroupFrom(_, _, _, _)
GroupFrom(fs, i, groups, categories) ==
    IF i > Len(fs) THEN groups
    ELSE LET category == CategoryOf(fs[i])
             n == Len(groups)
         IN  IF n = 0 \/ groups[n].category # category
             THEN GroupFrom(fs, i + 1,
                      Append(groups,
                          [category |-> category,
                           categoryName |-> getCategoryName(category, categories),
                           fields |-> <<fs[i]>>]),
                      categories)
             ELSE GroupFrom(fs, i + 1,
                      [groups EXCEPT ![n].fields = Append(@, fs[i])],
                      categories)

groupFieldsByCategory(fs, categories) == GroupFrom(fs, 1, <<>>, categories)

---------------------------------------------------------------------------
(* rhf-generator.ts: the schema compiler *)

\* The validator lists a field's validators property may hold.  A validator is
\* [type, regex, text, minValue, maxValue], "" for an absent property.
Validator(type, regex, text) ==
    [type |-> type, regex |-> regex, text |-> text, minValue |-> "", maxValue |-> ""]

ValidatorLists ==
    ("alpha" :> <<Validator("regex", "^[A-Za-z ]+$", "Alpha only")>>)
    @@ ("broken" :> <<Validator("regex", "[", "")>>)
    @@ ("email" :> <<Validator("email", "", "")>>)
    @@ ("bounds" :> <<[Validator("numeric", "", "Out of range") EXCEPT !.minValue = "1"]>>)

\* The patterns of the model new RegExp rejects with a SyntaxError.
InvalidPatterns == {"["}

ValidatorsOf(field) ==
    IF Prop(field, "validators").t = "array"
    THEN ValidatorLists[Prop(field, "validators").v]
    ELSE <<>>

\* field.validators?.some(...) and field.validators.forEach(...) raise a
\* TypeError on a validators property that is neither absent nor an array.
ValidatorsThrow(field) == Prop(field, "validators").t \notin {"undefined", "null", "array"}

\* Number(x) for the property values of the model.
NumberOf(x) ==
    IF x.t = "number" THEN x
    ELSE IF x.t = "boolean" THEN Num(IF x.v = "true" THEN "1" ELSE "0")
    ELSE IF x.t = "null" \/ (x.t = "string" /\ x.v = "") THEN Num("0")
    ELSE IF x.t = "string" /\ x.v \in {"0", "1", "5", "10", "100"} THEN Num(x.v)
    ELSE Num("NaN")

\* x ?? y
Coalesce(x, y) == IF x \in {Undefined, Null} THEN y ELSE x

BaseType(field) ==
    IF Prop(field, "inputType") = Str("number")
       \/ Prop(field, "type") \in {Str("number"), Str("slider"), Str("range")}
    THEN "number"
    ELSE IF Prop(field, "type") = Str("checkbox") THEN "array"
    ELSE IF Prop(field, "type") = Str("file") THEN "array"
    ELSE IF Prop(field, "type") = Str("boolean") THEN "boolean"
    ELSE IF Prop(field, "type") = Str("html") THEN "any"
    ELSE "string"

\* An array default is held as Arr(e), e its first element ("" when it has
\* none): the first element is all the compiler reads of it.
DefaultValueOf(field) ==
    LET defaultValue == Prop(field, "defaultValue")
        type == Prop(field, "type")
    IN  IF BaseType(field) = "number"
        THEN (IF defaultValue # Undefined THEN NumberOf(defaultValue) ELSE Str(""))
        ELSE IF type = Str("checkbox") THEN Arr("")
        ELSE IF type = Str("file") THEN Arr("")
        ELSE IF type = Str("boolean") THEN Coalesce(defaultValue, Bool(FALSE))
        ELSE IF type = Str("html") THEN Str("")
        ELSE IF defaultValue.t = "array" THEN Str(defaultValue.v)
        ELSE Coalesce(defaultValue, Str(""))

\* field.isRequired !== false && field.required !== false && field.type !== "html"
IsRequired(field) ==
    /\ Prop(field, "isRequired") # Bool(FALSE)
    /\ Prop(field, "required") # Bool(FALSE)
    /\ Prop(field, "type") # Str("html")

\* !x for a property value
Falsy(x) ==
    \/ x.t \in {"undefined", "null"}
    \/ x \in {Bool(FALSE), Str(""), Num("0"), Num("NaN")}

\* field.visible !== false && !field.visibleIf
IsAlwaysVisible(field) ==
    Prop(field, "visible") # Bool(FALSE) /\ Falsy(Prop(field, "visibleIf"))

Check(kind, arg, message) == [kind |-> kind, arg |-> arg, message |-> message]

\* The checks one validator of the list adds, in the order it adds them.
ValidatorChecks(v, baseType) ==
    (IF v.type = "regex" /\ v.regex # "" /\ v.regex \notin InvalidPatterns
        /\ baseType = "string"
     THEN <<Check("regex", v.regex, IF v.text = "" THEN "Invalid format" ELSE v.text)>>
     ELSE <<>>)
    \o (IF v.type = "email" /\ baseType = "string"
        THEN <<Check("email", "", IF v.text = "" THEN "Invalid email" ELSE v.text)>>
        ELSE <<>>)
    \o (IF v.type = "numeric" /\ baseType = "number"
        THEN (IF v.minValue # "" THEN <<Check("min", v.minValue, v.text)>> ELSE <<>>)
             \o (IF v.maxValue # "" THEN <<Check("max", v.maxValue, v.text)>> ELSE <<>>)
        ELSE <<>>)

RECURSIVE AllValidatorChecks(_, _)
AllValidatorChecks(vs, baseType) ==
    IF vs = <<>> THEN <<>>
    ELSE ValidatorChecks(vs[1], baseType) \o AllValidatorChecks(Tail(vs), baseType)

\* The schema the compiler builds for one field, as [baseType, checks,
\* optional]: the checks in the order they are chained, optional when the
\* field gets the final optional wrapper.
FieldSchema(field) ==
    LET baseType == BaseType(field)
        floor == IsRequired(field) /\ IsAlwaysVisible(field)
                 /\ Prop(field, "type") # Str("html")
        validators == ValidatorsOf(field)
        hasExplicitEmailValidator == \E i \in 1..Len(validators) : validators[i].type = "email"
    IN  [baseType |-> baseType,
         checks |->
            (IF baseType = "number" /\ Prop(field, "min") # Undefined
             THEN <<Check("min", NumberOf(Prop(field, "min")).v,
                          "Minimum value is " \o Prop(field, "min").v)>>
             ELSE <<>>)
            \o (IF baseType = "number" /\ Prop(field, "max") # Undefined
                THEN <<Check("max", NumberOf(Prop(field, "max")).v,
                             "Maximum value is " \o Prop(field, "max").v)>>
                ELSE <<>>)
            \o (IF floor /\ baseType = "string"
                THEN <<Check("minLength", "1", "This field is required")>>
                ELSE IF floor /\ baseType = "array"
                THEN <<Check("minItems", "1", "Please select at least one option")>>
                ELSE <<>>)
            \o (IF (Prop(field, "inputType") = Str("email") \/ Prop(field, "name") = Str("email"))
                   /\ baseType = "string" /\ ~hasExplicitEmailValidator
                THEN <<Check("email", "", "Invalid email address")>>
                ELSE <<>>)
            \o AllValidatorChecks(validators, baseType),
         optional |-> ~floor /\ baseType # "any"]

\* The index of the last field of fs named n.
LastNamed(fs, n) ==
    CHOOSE i \in 1..Len(fs) :
        /\ Prop(fs[i], "name").v = n
        /\ \A j \in (i + 1)..Len(fs) : Prop(fs[j], "name").v # n

NamesOf(fs) == {Prop(fs[i], "name").v : i \in 1..Len(fs)}

\* The guard written as !config.pages: an empty list passes.
NoPages_AbsentOnly(cfg) == ~cfg.hasPages

\* pages.length === 0 of config.pages || []
NoPages(cfg) == ~cfg.hasPages \/ cfg.pages = <<>>

ConfigError == "v2.0.0 templates must include a 'pages' configuration."

NoOutput ==
    [state |-> "idle", error |-> "", fields |-> <<>>, shape |-> EmptyObject,
     defaultValues |-> EmptyObject, groupedFields |-> <<>>, steps |-> <<>>,
     displayName |-> "", categories |-> <<>>]

RECURSIVE Flatten(_)
Flatten(ss) == IF ss = <<>> THEN <<>> ELSE ss[1] \o Flatten(Tail(ss))

\* A step that counts the pages from one.
Step_CountedFromOne(pg, idx, pageFields) ==
    [id |-> idx + 1,
     title |-> IF Falsy(pg.title) THEN Str("") ELSE pg.title,
     description |-> pg.description,
     fields |-> pageFields,
     showCategoryHeadings |-> Coalesce(pg.showCategoryHeadings, Bool(FALSE)),
     layout |-> pg.layout]

\* The step pages.map builds of a page, idx its index and pageFields what
\* resolvePageFields answered for it.
Step(pg, idx, pageFields) ==
    [id |-> idx,
     title |-> IF Falsy(pg.title) THEN Str("") ELSE pg.title,
     description |-> pg.description,
     fields |-> pageFields,
     showCategoryHeadings |-> Coalesce(pg.showCategoryHeadings, Bool(FALSE)),
     layout |-> pg.layout]

\* generateRHFSchema(config), the clock read at t1 while the pages are
\* collected, at t2 while the merged list is re-titled, at t3 while the steps
\* are built.  A raise leaves nothing but the error.
generateRHFSchema(cfg, t1, t2, t3) ==
    LET pages == IF cfg.hasPages THEN cfg.pages ELSE <<>>
        fieldsMap == cfg.fields
        collected == [i \in 1..Len(pages) |-> resolvePageFields(pages[i], fieldsMap, t1)]
        allFields == Flatten([i \in 1..Len(pages) |-> collected[i].fields])
        mergedFields == [i \in 1..Len(allFields) |-> applyDynamicTitles(allFields[i], t2)]
        stepFields == [i \in 1..Len(pages) |-> resolvePageFields(pages[i], fieldsMap, t3)]
    IN  IF NoPages(cfg)
        THEN [NoOutput EXCEPT !.state = "threw", !.error = ConfigError]
        ELSE IF \/ \E i \in 1..Len(pages) : collected[i].threw
                \/ \E i \in 1..Len(allFields) : ValidatorsThrow(allFields[i])
        THEN [NoOutput EXCEPT !.state = "threw", !.error = "TypeError"]
        ELSE [state |-> "returned",
              error |-> "",
              fields |-> mergedFields,
              shape |-> [n \in NamesOf(mergedFields) |->
                            FieldSchema(mergedFields[LastNamed(mergedFields, n)])],
              defaultValues |-> [n \in NamesOf(mergedFields) |->
                            DefaultValueOf(mergedFields[LastNamed(mergedFields, n)])],
              groupedFields |-> groupFieldsByCategory(mergedFields, cfg.categories),
              steps |-> [i \in 1..Len(pages) |-> Step(pages[i], i - 1, stepFields[i].fields)],
              displayName |-> IF cfg.displayName = "" THEN "Application Form"
                              ELSE cfg.displayName,
              categories |-> cfg.categories]

---------------------------------------------------------------------------
(* rhf-generator.ts: what the compiled zod schema does with submitted data *)

\* The characters of the field names and visibility expressions of the model.
Chars ==
    ("show" :> <<"s", "h", "o", "w">>)
    @@ ("secret" :> <<"s", "e", "c", "r", "e", "t">>)
    @@ ("hidden" :> <<"h", "i", "d", "d", "e", "n">>)
    @@ ("email" :> <<"e", "m", "a", "i", "l">>)
    @@ ("amount" :> <<"a", "m", "o", "u", "n", "t">>)
    @@ ("a" :> <<"a">>) @@ ("b" :> <<"b">>) @@ ("c" :> <<"c">>)
    @@ ("{show} = true" :>
            <<"{", "s", "h", "o", "w", "}", " ", "=", " ", "t", "r", "u", "e">>)
    @@ ("{a} = 'x'" :> <<"{", "a", "}", " ", "=", " ", "'", "x", "'">>)
    @@ ("{{invalid" :> <<"{", "{", "i", "n", "v", "a", "l", "i", "d">>)

\* The key of data a field name reads.
KeyOf(name) == Chars[name]

\* field.visibleIf as evaluateExpression receives it; it is a string in every
\* configuration of the model.
ExpressionOf(visibleIf) == JsString(Chars[visibleIf.v])

\* A submitted array of n strings.
JsArray(n) == V("array", n, <<>>)

\* data[key] of a submitted object
DataGet(d, key) == IF key \in DOMAIN d.props THEN d.props[key] ELSE JsUndefined

\* The numbers the bounds of the model are written with.
NumeralValue == ("0" :> 0) @@ ("1" :> 1) @@ ("5" :> 5) @@ ("10" :> 10) @@ ("100" :> 100)

\* The strings of the model z.string().email() accepts.
EmailStrings == {<<"a", "@", "b", ".", "c", "o">>}

\* regex.test(val) for the patterns of the model.
RegexTest(pattern, val) ==
    CASE pattern = "^[A-Za-z ]+$" ->
            val # <<>> /\ \A i \in 1..Len(val) : val[i] \in Letters \cup {"b", "c", "d", "m", " "}
      [] OTHER -> FALSE

Elements(seq) == {seq[k] : k \in 1..Len(seq)}

Issue(path, message) == [path |-> path, message |-> message]

\* What a zod type answers: status "valid", "dirty" (issues, parsing went on)
\* or "aborted" (issues, no value).
ParseReturn(status, value, issues) == [status |-> status, value |-> value, issues |-> issues]

\* Number(value) of z.coerce.number()
CoerceNumber(value) == IF value = JsArray(0) THEN JsNumber(0) ELSE ToNumber(value)

\* The type name zod's messages give a value.
ParsedType(value) ==
    CASE value.t = "NaN" -> "nan"
      [] OTHER -> value.t

InvalidType(expected, value, path) ==
    ParseReturn("aborted", value,
        <<Issue(path, IF value.t = "undefined" THEN "Required"
                      ELSE "Expected " \o expected \o ", received " \o ParsedType(value))>>)

\* z.string(), z.coerce.number(), z.array(...), z.boolean() and z.any() on a
\* value; the arrays of the model hold strings.
ParseBase(baseType, value, path) ==
    CASE baseType = "string" ->
            IF value.t = "string" THEN ParseReturn("valid", value, <<>>)
            ELSE InvalidType("string", value, path)
      [] baseType = "number" ->
            IF CoerceNumber(value).t = "number"
            THEN ParseReturn("valid", CoerceNumber(value), <<>>)
            ELSE InvalidType("number", CoerceNumber(value), path)
      [] baseType = "array" ->
            IF value.t = "array" THEN ParseReturn("valid", value, <<>>)
            ELSE InvalidType("array", value, path)
      [] baseType = "boolean" ->
            IF value.t = "boolean" THEN ParseReturn("valid", value, <<>>)
            ELSE InvalidType("boolean", value, path)
      [] OTHER -> ParseReturn("valid", value, <<>>)

\* The checks with refinements that test the empty string like any other.
CheckFails_NoEmptySkip(check, value) ==
    CASE check.kind = "minLength" -> Len(value.s) < NumeralValue[check.arg]
      [] check.kind = "minItems" -> value.n < NumeralValue[check.arg]
      [] check.kind = "min" -> check.arg # "NaN" /\ value.n < NumeralValue[check.arg]
      [] check.kind = "max" -> check.arg # "NaN" /\ value.n > NumeralValue[check.arg]
      [] check.kind = "regex" -> ~RegexTest(check.arg, value.s)
      [] check.kind = "email" -> value.s \notin EmailStrings
      [] OTHER -> FALSE

\* One check of the chain on a value of the base type.  A bound that is NaN
\* never fails; the refinements pass the empty string.
CheckFails(check, value) ==
    CASE check.kind = "minLength" -> Len(value.s) < NumeralValue[check.arg]
      [] check.kind = "minItems" -> value.n < NumeralValue[check.arg]
      [] check.kind = "min" -> check.arg # "NaN" /\ value.n < NumeralValue[check.arg]
      [] check.kind = "max" -> check.arg # "NaN" /\ value.n > NumeralValue[check.arg]
      [] check.kind = "regex" -> value.s # <<>> /\ ~RegexTest(check.arg, value.s)
      [] check.kind = "email" -> value.s # <<>> /\ value.s \notin EmailStrings
      [] OTHER -> FALSE

\* The issues of the checks that fail, in chain order: a failed check makes
\* the result dirty and the later checks still run.
RECURSIVE FailedChecks(_, _, _)
FailedChecks(checks, value, path) ==
    IF checks = <<>> THEN <<>>
    ELSE (IF CheckFails(checks[1], value) THEN <<Issue(path, checks[1].message)>> ELSE <<>>)
         \o FailedChecks(Tail(checks), value, path)

\* The field's schema before the optional wrapper.
ParseChain(schema, value, path) ==
    IF ParseBase(schema.baseType, value, path).status = "aborted"
    THEN ParseBase(schema.baseType, value, path)
    ELSE IF FailedChecks(schema.checks, ParseBase(schema.baseType, value, path).value, path) = <<>>
    THEN ParseBase(schema.baseType, value, path)
    ELSE ParseReturn("dirty", ParseBase(schema.baseType, value, path).value,
             FailedChecks(schema.checks, ParseBase(schema.baseType, value, path).value, path))

\* shape[name] on a value.  The wrapper is .optional() for arrays and
\* booleans, .optional().or(z.literal("")) for strings, and that
\* .or(z.null()) for numbers; a union answers with its first valid option,
\* else with its first dirty one, else with "Invalid input".
ParseField(schema, value, path) ==
    IF ~schema.optional THEN ParseChain(schema, value, path)
    ELSE IF value.t = "undefined" THEN ParseReturn("valid", value, <<>>)
    ELSE IF schema.baseType \in {"array", "boolean"} THEN ParseChain(schema, value, path)
    ELSE IF ParseChain(schema, value, path).status = "valid" THEN ParseChain(schema, value, path)
    ELSE IF value = JsString(<<>>) THEN ParseReturn("valid", value, <<>>)
    ELSE IF schema.baseType = "number" /\ value.t = "null" THEN ParseReturn("valid", value, <<>>)
    ELSE IF ParseChain(schema, value, path).status = "dirty" THEN ParseChain(schema, value, path)
    ELSE ParseReturn("aborted", value, <<Issue(path, "Invalid input")>>)

\* The keys of the shape in insertion order: the names of fs by first
\* occurrence.
RECURSIVE ShapeKeys(_)
ShapeKeys(fs) ==
    IF fs = <<>> THEN <<>>
    ELSE LET before == ShapeKeys(SubSeq(fs, 1, Len(fs) - 1))
             name == Prop(fs[Len(fs)], "name").v
         IN  IF \E i \in 1..Len(before) : before[i] = name THEN before
             ELSE Append(before, name)

\* A strict object schema: a submitted key the shape does not have is a
\* failure of the object.
RECURSIVE ParseObject_Strict(_, _, _, _, _)
ParseObject_Strict(shape, keys, i, d, acc) ==
    IF i > Len(keys)
    THEN (IF DOMAIN d.props \subseteq {KeyOf(keys[k]) : k \in 1..Len(keys)} THEN acc
          ELSE [status |-> IF acc.status = "aborted" THEN "aborted" ELSE "dirty",
                value |-> acc.value,
                issues |-> Append(acc.issues, Issue("", "Unrecognized key(s) in object"))])
    ELSE ParseObject_Strict(shape, keys, i + 1, d,
             [status |-> IF "aborted" \in {acc.status,
                                ParseField(shape[keys[i]], DataGet(d, KeyOf(keys[i])), keys[i]).status}
                         THEN "aborted"
                         ELSE IF "dirty" \in {acc.status,
                                ParseField(shape[keys[i]], DataGet(d, KeyOf(keys[i])), keys[i]).status}
                         THEN "dirty"
                         ELSE "valid",
              value |-> IF KeyOf(keys[i]) \in DOMAIN d.props
                        THEN [acc.value EXCEPT !.props = Spread(@,
                                 KeyOf(keys[i]) :>
                                 ParseField(shape[keys[i]], DataGet(d, KeyOf(keys[i])), keys[i]).value)]
                        ELSE acc.value,
              issues |-> acc.issues
                         \o ParseField(shape[keys[i]], DataGet(d, KeyOf(keys[i])), keys[i]).issues])

\* z.object(shape) on a submitted object, key by key from keys[i] on: unknown
\* keys are dropped, a key is set when its value is defined or the key was
\* submitted, and one aborted key aborts the object.
RECURSIVE ParseObject(_, _, _, _, _)
ParseObject(shape, keys, i, d, acc) ==
    IF i > Len(keys) THEN acc
    ELSE ParseObject(shape, keys, i + 1, d,
             [status |-> IF "aborted" \in {acc.status,
                                ParseField(shape[keys[i]], DataGet(d, KeyOf(keys[i])), keys[i]).status}
                         THEN "aborted"
                         ELSE IF "dirty" \in {acc.status,
                                ParseField(shape[keys[i]], DataGet(d, KeyOf(keys[i])), keys[i]).status}
                         THEN "dirty"
                         ELSE "valid",
              value |-> IF KeyOf(keys[i]) \in DOMAIN d.props
                        THEN [acc.value EXCEPT !.props = Spread(@,
                                 KeyOf(keys[i]) :>
                                 ParseField(shape[keys[i]], DataGet(d, KeyOf(keys[i])), keys[i]).value)]
                        ELSE acc.value,
              issues |-> acc.issues
                         \o ParseField(shape[keys[i]], DataGet(d, KeyOf(keys[i])), keys[i]).issues])

\* value === undefined || value === null || value === "" || an empty array
IsEmpty(value) ==
    \/ value.t \in {"undefined", "null"}
    \/ value = JsString(<<>>)
    \/ value = JsArray(0)

NoGate == [outcome |-> "none", value |-> TRUE, data |-> EmptyObject]

\* The superRefine callback of applyVisibilityValidation from fs[i] on, d the
\* parsed object and gate what evaluateExpression answered for fs[i] (NoGate
\* before it is asked): [outcome, data, issues].
RECURSIVE RefineFrom(_, _, _, _, _)
RefineFrom(fs, i, d, issues, gate) ==
    IF i > Len(fs) THEN [outcome |-> "returns", data |-> d, issues |-> issues]
    ELSE IF ~IsRequired(fs[i]) \/ Prop(fs[i], "visible") = Bool(FALSE)
    THEN RefineFrom(fs, i + 1, d, issues, NoGate)
    ELSE IF gate = NoGate /\ ~Falsy(Prop(fs[i], "visibleIf"))
    THEN RefineFrom(fs, i, d, issues,
             evaluateExpression(ExpressionOf(Prop(fs[i], "visibleIf")), d))
    ELSE IF gate.outcome = "diverges"
    THEN [outcome |-> "diverges", data |-> gate.data, issues |-> issues]
    ELSE IF gate # NoGate /\ ~gate.value
    THEN RefineFrom(fs, i + 1, gate.data, issues, NoGate)
    ELSE IF gate # NoGate
    THEN RefineFrom(fs, i + 1, gate.data,
             IF IsEmpty(DataGet(gate.data, KeyOf(Prop(fs[i], "name").v)))
             THEN Append(issues, Issue(Prop(fs[i], "name").v, "This field is required"))
             ELSE issues,
             NoGate)
    ELSE RefineFrom(fs, i + 1, d,
             IF IsEmpty(DataGet(d, KeyOf(Prop(fs[i], "name").v)))
             THEN Append(issues, Issue(Prop(fs[i], "name").v, "This field is required"))
             ELSE issues,
             NoGate)

\* safeParse of the schema applyVisibilityValidation returns, base being what
\* the object schema answered and refined what the callback did: the callback
\* runs unless the object aborted.
Refinement(base, refined) ==
    IF base.status = "aborted"
    THEN [outcome |-> "returns", success |-> FALSE, issues |-> base.issues]
    ELSE [outcome |-> refined.outcome,
          success |-> base.issues \o refined.issues = <<>>,
          issues |-> base.issues \o refined.issues]

applyVisibilityValidation(shape, keys, fs, d) ==
    Refinement(ParseObject(shape, keys, 1, d, ParseReturn("valid", DataObject(EmptyObject), <<>>)),
               IF ParseObject(shape, keys, 1, d,
                      ParseReturn("valid", DataObject(EmptyObject), <<>>)).status = "aborted"
               THEN NoGate
               ELSE RefineFrom(fs, 1,
                        ParseObject(shape, keys, 1, d,
                            ParseReturn("valid", DataObject(EmptyObject), <<>>)).value,
                        <<>>, NoGate))

\* zodSchema.safeParse(d) of what generateRHFSchema returned
safeParse(out, d) == applyVisibilityValidation(out.shape, ShapeKeys(out.fields), out.fields, d)

\* One safeParse call on the compiled schema, taken step by step.  A call
\* holds its own argument (data), what the object schema answered (base), the
\* parsed object the callback reads (parsed), the index of the field the
\* forEach of the callback comes to next, and the issues its ctx has
\* collected; overlapped records that another call was inside its callback
\* when this one began.
NewCall(d) ==
    [data |-> d, pc |-> "idle", overlapped |-> FALSE,
     base |-> ParseReturn("valid", DataObject(EmptyObject), <<>>),
     parsed |-> DataObject(EmptyObject), index |-> 0, issues |-> <<>>,
     result |-> [outcome |-> "", success |-> FALSE, issues |-> <<>>]]

\* An issue list kept in the closure: every call adds to the one list.
CtxIssues_Retained(cs, c) ==
    cs[c].issues \o cs[CHOOSE other \in DOMAIN cs : other # c].issues

\* The issues of the ctx superRefine hands the callback: one ctx per call.
CtxIssues(cs, c) == cs[c].issues

\* The object schema runs on the call's data; the callback is entered
\* unless the object aborted.
CallBegun(out, call) ==
    LET base == ParseObject(out.shape, ShapeKeys(out.fields), 1, call.data,
                            ParseReturn("valid", DataObject(EmptyObject), <<>>))
    IN  IF base.status = "aborted"
        THEN [call EXCEPT !.pc = "done", !.base = base,
                          !.result = Refinement(base, NoGate)]
        ELSE [call EXCEPT !.pc = "refining", !.base = base, !.parsed = base.value,
                          !.index = 1]

\* One turn of fields.forEach in the callback: refined is what the turn did
\* to the parsed object and the issues.
CallRefined(call, refined) ==
    IF refined.outcome = "diverges" THEN [call EXCEPT !.pc = "diverged"]
    ELSE [call EXCEPT !.parsed = refined.data, !.issues = refined.issues,
                      !.index = @ + 1]

\* The callback is through: safeParse returns.
CallReturned(call) ==
    [call EXCEPT !.pc = "done",
                 !.result = Refinement(call.base,
                                [outcome |-> "returns", data |-> call.parsed,
                                 issues |-> call.issues])]

\* What getStepSchema may be handed as fullSchema: the refined schema
\* (zodSchema), the object schema (baseSchema), an object holding it as
\* baseSchema, or nothing.
FullSchema(kind, shape) == [kind |-> kind, shape |-> shape]

FullSchemas(out) ==
    { FullSchema("ZodEffects", out.shape), FullSchema("ZodObject", out.shape),
      FullSchema("wrapper", out.shape), FullSchema("undefined", EmptyObject) }

\* f.name of the fields of fs, in order.
FieldNames(fs) == [i \in 1..Len(fs) |-> Prop(fs[i], "name").v]

\* step.fields.find(f => f.name === name)
FirstNamed(fs, name) ==
    fs[CHOOSE i \in 1..Len(fs) :
          /\ Prop(fs[i], "name").v = name
          /\ \A j \in 1..(i - 1) : Prop(fs[j], "name").v # name]

\* The step's fields whose name is in the shape, each as find answers it.
RECURSIVE StepFields(_, _, _)
StepFields(st, shape, i) ==
    IF i > Len(st.fields) THEN <<>>
    ELSE (IF FieldNames(st.fields)[i] \in DOMAIN shape \cup ObjectPrototypeKeys
          THEN <<FirstNamed(st.fields, FieldNames(st.fields)[i])>>
          ELSE <<>>)
         \o StepFields(st, shape, i + 1)

\* getStepSchema(step, fullSchema): the schema as [found, shape, keys,
\* fields].  All three forms lead to the same object schema; without one the
\* answer is z.object({}).  A name the shape only inherits puts a function
\* where a schema belongs: inherited tells whether that happened.
getStepSchema(st, fullSchema) ==
    IF fullSchema.kind \notin {"ZodObject", "wrapper", "ZodEffects"}
    THEN [found |-> FALSE, shape |-> EmptyObject, keys |-> <<>>, fields |-> <<>>,
          inherited |-> FALSE]
    ELSE [found |-> TRUE,
          shape |-> [name \in Elements(FieldNames(st.fields)) \cap DOMAIN fullSchema.shape
                        |-> fullSchema.shape[name]],
          keys |-> ShapeKeys(StepFields(st, fullSchema.shape, 1)),
          fields |-> StepFields(st, fullSchema.shape, 1),
          inherited |-> \E i \in 1..Len(st.fields) :
                           FieldNames(st.fields)[i] \in ObjectPrototypeKeys \ DOMAIN fullSchema.shape]

\* getStepSchema(step, fullSchema).safeParse(d)
stepSafeParse(schema, d) ==
    IF schema.inherited THEN [outcome |-> "throws", success |-> FALSE, issues |-> <<>>]
    ELSE applyVisibilityValidation(schema.shape, schema.keys, schema.fields, d)

\* allDefaults[name] where name in allDefaults holds: an own value, or the
\* function every plain object inherits under that name.
InheritedFunction(name) == [t |-> "function", v |-> name]

\* The loop of getStepDefaultValues over fs[i..], acc being stepDefaults as
\* built so far.
RECURSIVE StepDefaultsFrom(_, _, _, _)
StepDefaultsFrom(fs, i, defaults, acc) ==
    IF i > Len(fs) THEN acc
    ELSE StepDefaultsFrom(fs, i + 1, defaults,
             IF Prop(fs[i], "name").v \in DOMAIN defaults
             THEN Spread(acc, Prop(fs[i], "name").v :> defaults[Prop(fs[i], "name").v])
             ELSE IF Prop(fs[i], "name").v \in ObjectPrototypeKeys
             THEN Spread(acc,
                         Prop(fs[i], "name").v :> InheritedFunction(Prop(fs[i], "name").v))
             ELSE acc)

getStepDefaultValues(st, defaults) == StepDefaultsFrom(st.fields, 1, defaults, EmptyObject)

---------------------------------------------------------------------------
(* The inputs of the resolver *)

MaxRefs == 2

FieldKeys == {"a", "b"}

\* Stored definitions: one that omits both markers, one optional, one whose
\* markers disagree, one that carries a name of its own.
DefPool ==
    { "type" :> Str("text"),
      ("type" :> Str("text")) @@ ("required" :> Bool(FALSE)),
      ("type" :> Str("number")) @@ ("required" :> Bool(TRUE))
          @@ ("isRequired" :> Bool(FALSE)) @@ ("displayName" :> Str("Label")),
      ("name" :> Str("b")) @@ ("type" :> Str("text")) @@ ("required" :> Bool(TRUE)) }

FieldMaps == UNION {[K -> DefPool] : K \in SUBSET FieldKeys}

StringRef(n) ==
    [tag |-> "string", str |-> n, obj |-> EmptyObject, definition |-> EmptyObject]

ObjectRef(o) ==
    [tag |-> "object", str |-> "", obj |-> o, definition |-> EmptyObject]

InlineRef(d) ==
    [tag |-> "object", str |-> "", obj |-> "definition" :> ObjectValue,
     definition |-> d]

NullRef == [tag |-> "null", str |-> "", obj |-> EmptyObject, definition |-> EmptyObject]

RefPool ==
    { StringRef("a"), StringRef("b"), StringRef("missing"), StringRef("constructor"),
      ObjectRef(("ref" :> Str("a")) @@ ("required" :> Bool(FALSE))),
      ObjectRef(("ref" :> Str("a")) @@ ("displayName" :> Str("Other"))
                @@ ("type" :> Str("number")) @@ ("isRequired" :> Bool(TRUE))),
      ObjectRef(("ref" :> Str("b")) @@ ("name" :> Str("a"))),
      ObjectRef(("ref" :> Str("a")) @@ ("name" :> Num("5"))),
      ObjectRef(("ref" :> Str("a")) @@ ("name" :> Str("bank_statement_t2"))
                @@ ("displayName" :> Str("Mine"))),
      ObjectRef(("ref" :> Str("missing")) @@ ("required" :> Bool(FALSE))),
      ObjectRef(EmptyObject),
      InlineRef(("name" :> Str("c")) @@ ("type" :> Str("text"))),
      InlineRef(("name" :> Str("a")) @@ ("type" :> Str("text"))
                @@ ("isRequired" :> Bool(FALSE))),
      InlineRef(("name" :> Str("")) @@ ("type" :> Str("text"))),
      InlineRef("type" :> Str("text")),
      InlineRef(("name" :> Str("bank_statement_t1")) @@ ("type" :> Str("file"))
                @@ ("displayName" :> Str("Statement"))),
      InlineRef(("name" :> Str("financials")) @@ ("type" :> Str("file"))),
      NullRef }

SeqsUpTo(S, n) == UNION {[1..k -> S] : k \in 0..n}

Page(refs) ==
    [title |-> Str("Page"), description |-> Undefined,
     showCategoryHeadings |-> Undefined, layout |-> Undefined, fields |-> refs]

\* The dates new Date() may return when a label is computed.
Dates ==
    { [y |-> 2026, m |-> 10, d |-> 3],
      [y |-> 2025, m |-> 2, d |-> 31],
      [y |-> 2024, m |-> 0, d |-> 15] }

---------------------------------------------------------------------------
(* The value of resolved before the call *)

NotResolved == [state |-> "idle", threw |-> FALSE, fields |-> <<>>, warnings |-> 0]

---------------------------------------------------------------------------
(* resolvePageFields called on one page *)

InitResolve ==
    /\ fields \in FieldMaps
    /\ page \in {Page(refs) : refs \in SeqsUpTo(RefPool, MaxRefs)}
    /\ resolved = NotResolved
    /\ config = 0
    /\ output = 0
    /\ expression = 0
    /\ data = 0
    /\ result = 0
    /\ grouped = 0
    /\ submitted = 0
    /\ validation = 0
    /\ step = 0
    /\ allDefaults = 0
    /\ stepDefaults = 0
    /\ clock = 0
    /\ labels = 0
    /\ calls = 0

ResolvePage ==
    /\ resolved.state = "idle"
    /\ \E today \in Dates :
          resolved' = [state |-> "done"] @@ resolvePageFields(page, fields, today)
    /\ UNCHANGED <<fields, page, config, output, expression, data, result, grouped, submitted, validation, step, allDefaults, stepDefaults, clock, labels, calls>>

NextResolve == ResolvePage

SpecResolve == InitResolve /\ [][NextResolve]_vars

---------------------------------------------------------------------------
(* generateRHFSchema called on one configuration *)

MaxPages == 2

CompileDefPool ==
    { ("type" :> Str("text")) @@ ("category" :> Str("contact")),
      ("type" :> Str("text")) @@ ("required" :> Bool(FALSE))
          @@ ("validators" :> Arr("alpha")) @@ ("visibleIf" :> Str("{a} = 'x'")),
      ("type" :> Str("text")) @@ ("validators" :> Arr("broken")),
      ("type" :> Str("text")) @@ ("visibleIf" :> Str("{{invalid")),
      ("type" :> Str("text")) @@ ("inputType" :> Str("number"))
          @@ ("max" :> Num("100")) @@ ("defaultValue" :> Str("5")),
      ("type" :> Str("checkbox")) @@ ("category" :> Str("other")),
      ("type" :> Str("checkbox")) @@ ("defaultValue" :> Arr("x")) }

CompileFieldMaps == UNION {[K -> CompileDefPool] : K \in SUBSET FieldKeys}

PagePool ==
    { [Page(<<StringRef("a"), StringRef("b")>>) EXCEPT !.title = Str("Step 1")],
      Page(<<StringRef("a"), StringRef("missing")>>),
      Page(<<ObjectRef(("ref" :> Str("a")) @@ ("required" :> Bool(FALSE))),
             InlineRef(("name" :> Str("c")) @@ ("type" :> Str("text")))>>),
      Page(<<ObjectRef(("ref" :> Str("a")) @@ ("name" :> Num("5")))>>),
      Page(<<InlineRef("type" :> Str("text"))>>),
      Page(<<NullRef>>),
      [Page(<<>>) EXCEPT !.title = Undefined],
      [Page(<<InlineRef(("name" :> Str("bank_statement_t1")) @@ ("type" :> Str("file"))
                        @@ ("displayName" :> Str("Statement"))),
              StringRef("b")>>) EXCEPT !.showCategoryHeadings = Bool(TRUE)] }

Categories == <<[id |-> "contact", name |-> "Contact Information"]>>

Config(hasPages, pages, fieldsMap) ==
    [hasPages |-> hasPages, pages |-> pages, fields |-> fieldsMap,
     categories |-> Categories, displayName |-> ""]

Configs ==
    {Config(TRUE, ps, fm) : ps \in SeqsUpTo(PagePool, MaxPages), fm \in CompileFieldMaps}
    \cup {Config(FALSE, <<>>, fm) : fm \in CompileFieldMaps}

\* The clock does not run backwards between two reads.
DateLE(a, b) ==
    \/ a.y < b.y
    \/ a.y = b.y /\ a.m < b.m
    \/ a.y = b.y /\ a.m = b.m /\ a.d <= b.d

Init ==
    /\ config \in Configs
    /\ output = NoOutput
    /\ fields = 0
    /\ page = 0
    /\ resolved = 0
    /\ expression = 0
    /\ data = 0
    /\ result = 0
    /\ grouped = 0
    /\ submitted = 0
    /\ validation = 0
    /\ step = 0
    /\ allDefaults = 0
    /\ stepDefaults = 0
    /\ clock = 0
    /\ labels = 0
    /\ calls = 0

Generate ==
    /\ output.state = "idle"
    /\ \E t1, t2, t3 \in Dates :
          /\ DateLE(t1, t2) /\ DateLE(t2, t3)
          /\ output' = generateRHFSchema(config, t1, t2, t3)
    /\ UNCHANGED <<config, fields, page, resolved, expression, data, result, grouped, submitted, validation, step, allDefaults, stepDefaults, clock, labels, calls>>

Next == Generate

Spec == Init /\ [][Next]_vars

---------------------------------------------------------------------------
(* evaluateExpression called on one expression and one data value *)

MaxLen == 3

\* The characters the expressions are spelt with: braces, a name, a digit, a
\* quote, a blank and the operator characters.
Alphabet == {"{", "}", "v", "1", "'", " ", "=", "!", "<", ">"}

OrderingOperators == {<<">">>, <<"<">>, <<">", "=">>, <<"<", "=">>}

EqualityOperators == {<<"=">>, <<"=", "=">>, <<"!", "=">>}

VariableNames ==
    {<<"v">>, <<"v", " ", "v">>, <<" ", "v">>, <<"1">>, <<"l", "e", "n", "g", "t", "h">>}

Literals ==
    { <<"1">>, <<"5">>, <<"'", "1", "'">>, <<"'", "a", "'">>, <<"'", "=", "'">>,
      <<"t", "r", "u", "e">> }

\* {name} op literal
Comparison(name, op, literal) == <<"{">> \o name \o <<"}", " ">> \o op \o <<" ">> \o literal

Comparisons ==
    {Comparison(name, op, literal) :
        name \in VariableNames, op \in OrderingOperators \cup EqualityOperators,
        literal \in Literals}

LoopText == <<"e", "v", "a", "l", "(", "'", "f", "o", "r", "(", ";", ";", ")", ";", "'", ")">>

\* Texts longer than MaxLen that are no comparison: an assignment, an
\* assignment read back, a call of an undeclared name, code that loops.
OtherTexts ==
    { <<"{", "v", "}", "<", "<", "=", "1">>,
      <<"(", "{", "v", "}", "<", "<", "=", "1", ")", "<", "{", "v", "}">>,
      <<"v", "(", "1", ")">>,
      <<"e", "v", "a", "l", "(", "'", "1", ";", "'", ")">>,
      <<"1", ";", "f", "o", "r", "(", ";", ";", ")", ";">>,
      LoopText }

\* The expressions: every text of up to MaxLen characters, the comparisons,
\* the other texts, and the values callers pass for an absent expression or
\* pass by mistake.
Expressions ==
    {JsString(s) : s \in SeqsUpTo(Alphabet, MaxLen) \cup Comparisons \cup OtherTexts}
    \cup {JsNull, JsUndefined, JsNumber(0), JsNumber(5), JsBoolean(TRUE)}

DataValues ==
    { DataPrimitive("null", <<>>, 0),
      DataPrimitive("undefined", <<>>, 0),
      DataObject(EmptyObject),
      DataObject(<<"v">> :> JsNumber(5)),
      DataObject(<<"v">> :> JsString(<<"1", "5">>)),
      DataObject(<<"v">> :> JsBoolean(TRUE)),
      DataObject(<<"v", " ", "v">> :> JsNumber(1)),
      DataPrimitive("string", <<>>, 0),
      DataPrimitive("string", <<"1", "5">>, 0),
      DataPrimitive("number", <<>>, 0),
      DataPrimitive("number", <<>>, 5),
      DataPrimitive("boolean", <<>>, 1) }

NotEvaluated ==
    [state |-> "idle", outcome |-> "", value |-> FALSE, given |-> DataObject(EmptyObject)]

InitEval ==
    /\ expression \in Expressions
    /\ data \in DataValues
    /\ result = NotEvaluated
    /\ fields = 0
    /\ page = 0
    /\ resolved = 0
    /\ config = 0
    /\ output = 0
    /\ grouped = 0
    /\ submitted = 0
    /\ validation = 0
    /\ step = 0
    /\ allDefaults = 0
    /\ stepDefaults = 0
    /\ clock = 0
    /\ labels = 0
    /\ calls = 0

\* One call; given keeps the data as it was passed.
Evaluate ==
    /\ result.state = "idle"
    /\ \E r \in {evaluateExpression(expression, data)} :
          /\ result' = [state |-> "done", outcome |-> r.outcome, value |-> r.value,
                        given |-> data]
          /\ data' = r.data
    /\ UNCHANGED <<expression, fields, page, resolved, config, output, grouped, submitted, validation, step, allDefaults, stepDefaults, clock, labels, calls>>

NextEval == Evaluate

SpecEval == InitEval /\ [][NextEval]_vars

---------------------------------------------------------------------------
(* groupFieldsByCategory called on one list of resolved fields *)

MaxFields == 5

\* Resolved fields of two categories, of the empty category and of none.
GroupedFieldPool ==
    { ("name" :> Str("a")) @@ ("category" :> Str("A")),
      ("name" :> Str("b")) @@ ("category" :> Str("A")),
      ("name" :> Str("c")) @@ ("category" :> Str("B")),
      ("name" :> Str("d")) @@ ("category" :> Str("")),
      ("name" :> Str("e")) @@ ("category" :> Null),
      ("name" :> Str("f")) }

GroupCategories == <<[id |-> "A", name |-> "Section A"], [id |-> "B", name |-> ""]>>

NotGrouped == [state |-> "idle", groups |-> <<>>]

InitGroup ==
    /\ fields \in SeqsUpTo(GroupedFieldPool, MaxFields)
    /\ grouped = NotGrouped
    /\ page = 0
    /\ resolved = 0
    /\ config = 0
    /\ output = 0
    /\ expression = 0
    /\ data = 0
    /\ result = 0
    /\ submitted = 0
    /\ validation = 0
    /\ step = 0
    /\ allDefaults = 0
    /\ stepDefaults = 0
    /\ clock = 0
    /\ labels = 0
    /\ calls = 0

Group ==
    /\ grouped.state = "idle"
    /\ grouped' = [state |-> "done", groups |-> groupFieldsByCategory(fields, GroupCategories)]
    /\ UNCHANGED <<fields, page, resolved, config, output, expression, data, result, submitted, validation, step, allDefaults, stepDefaults, clock, labels, calls>>

NextGroup == Group

SpecGroup == InitGroup /\ [][NextGroup]_vars

---------------------------------------------------------------------------
(* generateRHFSchema called on a form, and its schema on submitted data *)

\* A gate, a text field the gate shows, a text field never shown, an email
\* field and a bounded number the gate shows.
FormFields ==
    ("show" :> ("type" :> Str("boolean")))
    @@ ("secret" :> (("type" :> Str("text")) @@ ("required" :> Bool(TRUE))
                     @@ ("visibleIf" :> Str("{show} = true"))
                     @@ ("validators" :> Arr("alpha"))))
    @@ ("hidden" :> (("type" :> Str("text")) @@ ("visible" :> Bool(FALSE))))
    @@ ("email" :> (("type" :> Str("text")) @@ ("validators" :> Arr("email"))))
    @@ ("amount" :> (("type" :> Str("number")) @@ ("max" :> Num("100"))
                     @@ ("visibleIf" :> Str("{show} = true"))))

FormPagePool ==
    { [Page(<<StringRef("show"), StringRef("secret")>>) EXCEPT !.title = Str("Step 1")],
      [Page(<<StringRef("email"), StringRef("amount")>>) EXCEPT !.title = Undefined,
                                                                !.layout = Str("grid")],
      Page(<<StringRef("hidden"),
             ObjectRef(("ref" :> Str("secret")) @@ ("required" :> Bool(FALSE))
                       @@ ("defaultValue" :> Str("none")))>>) }

\* Forms of one to MaxPages pages, no page listed twice.
FormConfigs ==
    {[Config(TRUE, ps, FormFields) EXCEPT !.categories = <<>>] :
        ps \in {qs \in SeqsUpTo(FormPagePool, MaxPages) \ {<<>>} :
                    \A i, j \in 1..Len(qs) : qs[i] = qs[j] => i = j}}

\* The values a submission holds for a key; Undefined stands for a key that
\* is not submitted.
SubmittedValues ==
    ("show" :> {JsBoolean(TRUE), JsBoolean(FALSE)})
    @@ ("secret" :> {JsUndefined, JsNull, JsString(<<>>), JsString(<<"a">>),
                     JsString(<<"a", "1">>)})
    @@ ("hidden" :> {JsNull, JsString(<<>>)})
    @@ ("email" :> {JsString(<<>>), JsString(<<"a">>),
                    JsString(<<"a", "@", "b", ".", "c", "o">>)})
    @@ ("amount" :> {JsUndefined, JsString(<<>>), JsNumber(155)})

Submission(values) ==
    DataObject([key \in {KeyOf(name) : name \in {n \in DOMAIN values : values[n] # JsUndefined}}
                   |-> values[CHOOSE name \in DOMAIN values : KeyOf(name) = key]])

Submissions ==
    {Submission(("show" :> show) @@ ("secret" :> secret) @@ ("hidden" :> hidden)
                @@ ("email" :> email) @@ ("amount" :> amount)) :
        show \in SubmittedValues["show"], secret \in SubmittedValues["secret"],
        hidden \in SubmittedValues["hidden"], email \in SubmittedValues["email"],
        amount \in SubmittedValues["amount"]}

NotValidated ==
    [state |-> "idle", schema |-> "", step |-> 0, outcome |-> "", success |-> FALSE,
     issues |-> <<>>]

InitValidate ==
    /\ config \in FormConfigs
    /\ submitted \in Submissions
    /\ output = NoOutput
    /\ validation = NotValidated
    /\ fields = 0
    /\ page = 0
    /\ resolved = 0
    /\ expression = 0
    /\ data = 0
    /\ result = 0
    /\ grouped = 0
    /\ step = 0
    /\ allDefaults = 0
    /\ stepDefaults = 0
    /\ clock = 0
    /\ labels = 0
    /\ calls = 0

\* zodSchema.safeParse(submitted)
Validate ==
    /\ output.state = "returned"
    /\ validation.state = "idle"
    /\ \E r \in {safeParse(output, submitted)} :
          validation' = [state |-> "done", schema |-> "form", step |-> 0,
                         outcome |-> r.outcome, success |-> r.success, issues |-> r.issues]
    /\ UNCHANGED <<config, output, submitted, fields, page, resolved, expression, data, result,
                   grouped, step, allDefaults, stepDefaults, clock, labels, calls>>

\* getStepSchema(output.steps[i], fullSchema).safeParse(submitted)
ValidateStep ==
    /\ output.state = "returned"
    /\ validation.state = "idle"
    /\ \E i \in 1..Len(output.steps), fullSchema \in FullSchemas(output) :
          \E r \in {stepSafeParse(getStepSchema(output.steps[i], fullSchema), submitted)} :
             validation' = [state |-> "done", schema |-> fullSchema.kind, step |-> i,
                            outcome |-> r.outcome, success |-> r.success, issues |-> r.issues]
    /\ UNCHANGED <<config, output, submitted, fields, page, resolved, expression, data, result,
                   grouped, step, allDefaults, stepDefaults, clock, labels, calls>>

NextValidate == Generate \/ Validate \/ ValidateStep

SpecValidate == InitValidate /\ [][NextValidate]_vars

---------------------------------------------------------------------------
(* getStepDefaultValues called on one step and one defaults map *)

StepFieldPool ==
    { ("name" :> Str("a")) @@ ("type" :> Str("text")),
      ("name" :> Str("b")) @@ ("type" :> Str("number")),
      ("name" :> Str("c")) @@ ("type" :> Str("checkbox")),
      ("name" :> Str("constructor")) @@ ("type" :> Str("text")) }

DefaultsPool ==
    UNION {[K -> {Str(""), Num("5")}] : K \in SUBSET {"a", "b", "constructor"}}

NoStepDefaults == [state |-> "idle", values |-> EmptyObject]

InitDefaults ==
    /\ step \in {Step(Page(<<>>), 0, fs) : fs \in SeqsUpTo(StepFieldPool, MaxRefs)}
    /\ allDefaults \in DefaultsPool
    /\ stepDefaults = NoStepDefaults
    /\ fields = 0
    /\ page = 0
    /\ resolved = 0
    /\ config = 0
    /\ output = 0
    /\ expression = 0
    /\ data = 0
    /\ result = 0
    /\ grouped = 0
    /\ submitted = 0
    /\ validation = 0
    /\ clock = 0
    /\ labels = 0
    /\ calls = 0

StepDefaultValues ==
    /\ stepDefaults.state = "idle"
    /\ stepDefaults' = [state |-> "done", values |-> getStepDefaultValues(step, allDefaults)]
    /\ UNCHANGED <<step, allDefaults, fields, page, resolved, config, output, expression, data,
                   result, grouped, submitted, validation, clock, labels, calls>>

NextDefaults == StepDefaultValues

SpecDefaults == InitDefaults /\ [][NextDefaults]_vars

---------------------------------------------------------------------------
(* getPastMonthLabel called at one date with several offsets *)

\* Every day of a common year and of the leap year after it.
Calendar ==
    {date \in [y : {2023, 2024}, m : 0..11, d : 1..31] :
        date.d <= DaysInMonth(date.y, date.m)}

\* The values of monthsAgo: the current month, the two before it, and the
\* same three a year earlier.
MonthOffsets == {0, 1, 2, 12, 13, 14}

NoLabels == [n \in {} |-> ""]

InitLabel ==
    /\ clock \in Calendar
    /\ labels = NoLabels
    /\ fields = 0
    /\ page = 0
    /\ resolved = 0
    /\ config = 0
    /\ output = 0
    /\ expression = 0
    /\ data = 0
    /\ result = 0
    /\ grouped = 0
    /\ submitted = 0
    /\ validation = 0
    /\ step = 0
    /\ allDefaults = 0
    /\ stepDefaults = 0
    /\ calls = 0

\* getPastMonthLabel(monthsAgo), the clock standing at the same date for
\* every call.
PastMonthLabel ==
    /\ \E monthsAgo \in MonthOffsets \ DOMAIN labels :
          labels' = labels @@ (monthsAgo :> getPastMonthLabel(monthsAgo, clock))
    /\ UNCHANGED <<clock, fields, page, resolved, config, output, expression, data, result,
                   grouped, submitted, validation, step, allDefaults, stepDefaults, calls>>

NextLabel == PastMonthLabel

SpecLabel == InitLabel /\ [][NextLabel]_vars

---------------------------------------------------------------------------
(* Two safeParse calls on one compiled schema, interleaved *)

Callers == {"first", "second"}

\* The snapshots the two callers validate.
Snapshots ==
    {Submission(("show" :> show) @@ ("secret" :> secret) @@ ("hidden" :> hidden)
                @@ ("email" :> JsString(<<>>)) @@ ("amount" :> JsUndefined)) :
        show \in {JsBoolean(TRUE), JsBoolean(FALSE)},
        secret \in {JsString(<<>>), JsString(<<"a", "1">>)},
        hidden \in {JsString(<<>>), JsNull}}

InitConcurrent ==
    /\ config \in FormConfigs
    /\ output = NoOutput
    /\ calls \in {cs \in [Callers -> {NewCall(d) : d \in Snapshots}] :
                     cs["first"] # cs["second"]}
    /\ fields = 0
    /\ page = 0
    /\ resolved = 0
    /\ expression = 0
    /\ data = 0
    /\ result = 0
    /\ grouped = 0
    /\ submitted = 0
    /\ validation = 0
    /\ step = 0
    /\ allDefaults = 0
    /\ stepDefaults = 0
    /\ clock = 0
    /\ labels = 0

\* A caller enters zodSchema.safeParse(data).
Begin ==
    /\ output.state = "returned"
    /\ \E c \in Callers :
          /\ calls[c].pc = "idle"
          /\ calls' = [calls EXCEPT ![c] =
                          [CallBegun(output, calls[c]) EXCEPT !.overlapped =
                              \E other \in Callers : calls[other].pc = "refining"]]
    /\ UNCHANGED <<config, output, fields, page, resolved, expression, data, result, grouped,
                   submitted, validation, step, allDefaults, stepDefaults, clock, labels>>

\* A call's callback handles the next field of the compiled field list.
RefineField ==
    /\ \E c \in Callers :
          /\ calls[c].pc = "refining"
          /\ calls[c].index <= Len(output.fields)
          /\ \E refined \in {RefineFrom(<<output.fields[calls[c].index]>>, 1, calls[c].parsed,
                                        CtxIssues(calls, c), NoGate)} :
                calls' = [calls EXCEPT ![c] = CallRefined(calls[c], refined)]
    /\ UNCHANGED <<config, output, fields, page, resolved, expression, data, result, grouped,
                   submitted, validation, step, allDefaults, stepDefaults, clock, labels>>

\* A call's callback has handled every field: the call returns.
Return ==
    /\ \E c \in Callers :
          /\ calls[c].pc = "refining"
          /\ calls[c].index > Len(output.fields)
          /\ calls' = [calls EXCEPT ![c] = CallReturned(calls[c])]
    /\ UNCHANGED <<config, output, fields, page, resolved, expression, data, result, grouped,
                   submitted, validation, step, allDefaults, stepDefaults, clock, labels>>

NextConcurrent == Generate \/ Begin \/ RefineField \/ Return

SpecConcurrent == InitConcurrent /\ [][NextConcurrent]_vars

---------------------------------------------------------------------------
(* Properties of resolvePageFields *)

Resolved == resolved.state = "done" /\ ~resolved.threw

\* No reference was dropped: resolved.fields[i] comes from page.fields[i].
NoneDropped == Len(resolved.fields) = Len(page.fields)

IsStringRef(ref) == ref.tag = "string"

IsInlineRef(ref) == ref.tag = "object" /\ "definition" \in DOMAIN ref.obj

IsOverrideRef(ref) ==
    ref.tag = "object" /\ "definition" \notin DOMAIN ref.obj /\ "ref" \in DOMAIN ref.obj

\* The name a reference looks up.
RefName(ref) == IF IsStringRef(ref) THEN ref.str ELSE Prop(ref.obj, "ref").v

StoredDefinition(ref) ==
    IF RefName(ref) \in DOMAIN fields THEN fields[RefName(ref)] ELSE EmptyObject

\* The value of property p in the merged definition of a reference.
MergedProp(ref, p) ==
    IF IsInlineRef(ref) THEN Prop(ref.definition, p)
    ELSE IF IsOverrideRef(ref) /\ p \in DOMAIN ref.obj \ {"ref"} THEN ref.obj[p]
    ELSE Prop(StoredDefinition(ref), p)

ExpectedRequired(ref) ==
    MergedProp(ref, "isRequired") # Bool(FALSE) /\ MergedProp(ref, "required") # Bool(FALSE)

\* C3: every field resolvePageFields returns has required and isRequired both
\* boolean and equal, normalizing it again changes nothing, and the common
\* value is (isRequired !== false) && (required !== false) of the merged
\* definition: true when the definition omits both markers.
C3_RequiredNormalized ==
    Resolved =>
        \A i \in 1..Len(resolved.fields) :
            LET f == resolved.fields[i]
            IN  /\ {"required", "isRequired"} \subseteq DOMAIN f
                /\ f["required"].t = "boolean"
                /\ f["isRequired"] = f["required"]
                /\ normalizeField(f) = f
                /\ NoneDropped =>
                       f["required"] = Bool(ExpectedRequired(page.fields[i]))

\* A page of two resolved references: one whose definition omits both markers
\* (required by default), one whose markers disagree (not required).
C3_Witness ==
    /\ Resolved /\ NoneDropped /\ Len(page.fields) = 2
    /\ \E i, j \in 1..2 :
          /\ MergedProp(page.fields[i], "required") = Undefined
          /\ MergedProp(page.fields[i], "isRequired") = Undefined
          /\ resolved.fields[i]["required"] = Bool(TRUE)
          /\ MergedProp(page.fields[j], "required") = Bool(TRUE)
          /\ MergedProp(page.fields[j], "isRequired") = Bool(FALSE)
          /\ resolved.fields[j]["required"] = Bool(FALSE)
          /\ resolved.fields[j]["isRequired"] = Bool(FALSE)

\* The references the type FieldReference admits.
WellFormedRefs ==
    \A i \in 1..Len(page.fields) :
        \/ IsStringRef(page.fields[i])
        \/ IsInlineRef(page.fields[i])
        \/ IsOverrideRef(page.fields[i])

\* A reference by name is resolvable when its name is a key of the mapping.
NameIsKey(ref) == IsInlineRef(ref) \/ RefName(ref) \in DOMAIN fields

\* C4: resolvePageFields drops exactly the references whose name is not a key
\* of the field definitions: the result is the resolved fields of the other
\* references in page order, as many as there are resolvable references.
C4_DropsExactlyUnknownNames ==
    Resolved /\ WellFormedRefs =>
        LET n == Len(page.fields)
            each(today) ==
                [i \in 1..n |-> applyDynamicTitles(
                    resolveFieldReference(page.fields[i], fields).field, today)]
        IN  /\ Len(resolved.fields)
                  = Cardinality({i \in 1..n : NameIsKey(page.fields[i])})
            /\ \E today \in Dates :
                  resolved.fields
                    = SelectKept(each(today), [i \in 1..n |-> NameIsKey(page.fields[i])])

DynamicTitleNames == DOMAIN BankStatementMonths \cup {"financials"}

\* The properties C5 leaves aside: the normalized pair, and the display title
\* of a field whose title is rewritten.
Exempt(f) ==
    {"required", "isRequired"}
    \cup (IF Prop(f, "name").v \in DynamicTitleNames THEN {"displayName"} ELSE {})

\* C5: in the field resolved from {ref: n, ...overrides}, n a key of the
\* definitions, every overridden property has the override's value and every
\* other property of the stored definition keeps the definition's value
\* (the required/isRequired pair and a rewritten display title apart).
C5_OverridesWin ==
    Resolved /\ NoneDropped =>
        \A i \in 1..Len(page.fields) :
            LET ref == page.fields[i]
                f == resolved.fields[i]
                def == StoredDefinition(ref)
                overrides == Rest(ref.obj, "ref")
            IN  IsOverrideRef(ref) /\ RefName(ref) \in DOMAIN fields =>
                  /\ \A p \in DOMAIN overrides \ Exempt(f) :
                        p \in DOMAIN f /\ f[p] = overrides[p]
                  /\ \A p \in DOMAIN def \ (DOMAIN overrides \cup Exempt(f)) :
                        p \in DOMAIN f /\ f[p] = def[p]

\* An override that changes a property the stored definition has, next to a
\* property of the definition it leaves alone.
C5_Witness ==
    /\ Resolved /\ NoneDropped
    /\ \E i \in 1..Len(page.fields) :
          LET ref == page.fields[i]
              f == resolved.fields[i]
              def == StoredDefinition(ref)
              overrides == Rest(ref.obj, "ref")
          IN  /\ IsOverrideRef(ref) /\ RefName(ref) \in DOMAIN fields
              /\ \E p \in (DOMAIN overrides \cap DOMAIN def) \ Exempt(f) :
                    overrides[p] # def[p] /\ f[p] = overrides[p]
              /\ \E p \in DOMAIN def \ (DOMAIN overrides \cup Exempt(f)) :
                    f[p] = def[p]

\* C6: the field resolved from a bare name n, n a key of the definitions, is
\* named n, whatever name property the stored definition carries.
C6_ReferenceNameWins ==
    Resolved /\ NoneDropped =>
        \A i \in 1..Len(page.fields) :
            LET ref == page.fields[i]
            IN  IsStringRef(ref) /\ ref.str \in DOMAIN fields =>
                  resolved.fields[i]["name"] = Str(ref.str)

ResolvedNames == [i \in 1..Len(resolved.fields) |-> Prop(resolved.fields[i], "name")]

PairwiseDistinct(s) == \A i, j \in 1..Len(s) : i # j => s[i] # s[j]

\* C7 as stated: every resolved field has a non-empty name and no two fields
\* of the page share one.
C7_NamesNonEmptyUnique ==
    Resolved =>
        /\ \A i \in 1..Len(ResolvedNames) :
              ResolvedNames[i].t = "string" /\ ResolvedNames[i].v # ""
        /\ PairwiseDistinct(ResolvedNames)

\* The pages on which the names are the references' own: bare names, non-empty
\* and pairwise distinct, whose stored definitions carry no name.
DistinctBareNames ==
    /\ \A i \in 1..Len(page.fields) :
          /\ IsStringRef(page.fields[i])
          /\ page.fields[i].str # ""
          /\ "name" \notin DOMAIN StoredDefinition(page.fields[i])
    /\ PairwiseDistinct([i \in 1..Len(page.fields) |-> page.fields[i].str])

\* C7, amended: every resolved field has a string for a name, and the names
\* are non-empty and pairwise distinct on a page of pairwise distinct
\* non-empty bare names whose stored definitions carry no name.
C7_NamesAreStrings ==
    Resolved =>
        /\ \A i \in 1..Len(ResolvedNames) : ResolvedNames[i].t = "string"
        /\ DistinctBareNames =>
              /\ \A i \in 1..Len(ResolvedNames) : ResolvedNames[i].v # ""
              /\ PairwiseDistinct(ResolvedNames)

C7_Witness ==
    /\ Resolved /\ DistinctBareNames
    /\ Len(resolved.fields) = 2
    /\ ResolvedNames[1] # ResolvedNames[2]

---------------------------------------------------------------------------
(* Properties of generateRHFSchema *)

\* C1: generateRHFSchema raises the configuration error whenever config.pages
\* is absent or an empty list, and returns nothing then.
C1_NoPagesThrows ==
    output.state # "idle" /\ (~config.hasPages \/ config.pages = <<>>) =>
        /\ output.state = "threw"
        /\ output.error = ConfigError
        /\ output = [NoOutput EXCEPT !.state = "threw", !.error = ConfigError]

\* The call has raised on a configuration whose pages are an empty list.
C1_Witness ==
    /\ config.hasPages /\ config.pages = <<>>
    /\ output.state = "threw" /\ output.error = ConfigError

\* The references of a page are of the forms the type FieldReference admits:
\* a string, {ref, ...overrides}, {definition} holding a definition with a
\* string for a name.
TypedRefs(pg) ==
    \A i \in 1..Len(pg.fields) :
        LET ref == pg.fields[i]
        IN  \/ IsStringRef(ref)
            \/ IsOverrideRef(ref)
            \/ IsInlineRef(ref) /\ Prop(ref.definition, "name").t = "string"

\* C2: with at least one page generateRHFSchema returns an output and does not
\* raise, whatever the references, validators and visibleIf expressions are.
C2_OnlyMissingPagesThrows ==
    /\ output.state # "idle"
    /\ config.hasPages /\ config.pages # <<>>
    /\ \A i \in 1..Len(config.pages) : TypedRefs(config.pages[i])
    => output.state = "returned"

---------------------------------------------------------------------------
(* Properties of evaluateExpression *)

\* The try block of the call has failed: the expression is no string, or the
\* text built from it does not parse, or running it raises.
EvaluationFails == ToBoolean(expression) /\ TryEvaluate(expression, result.given).error # ""

\* C8: evaluateExpression is total: whatever the expression and the data, the
\* call returns, and it returns false when parsing or evaluating fails.
C8_AlwaysReturns ==
    result.state = "done" =>
        /\ result.outcome = "returns"
        /\ (EvaluationFails => result.value = FALSE)

EmptyExpressions == {JsString(<<>>), JsNull, JsUndefined}

\* C9: for an empty or absent expression (the empty string, null, undefined)
\* evaluateExpression returns true, whatever the data is.
C9_EmptyIsTrue ==
    result.state = "done" /\ expression \in EmptyExpressions =>
        /\ result.outcome = "returns"
        /\ result.value = TRUE
        /\ data = result.given

\* An absent expression has been evaluated against data that is no object.
C9_Witness ==
    /\ result.state = "done"
    /\ expression = JsNull
    /\ result.given = DataPrimitive("string", <<"1", "5">>, 0)
    /\ result.value = TRUE

\* The variable is missing from the data, or the data is no object.
Missing(name, d) == d.kind # "object" \/ name \notin DOMAIN d.props

\* C10: an ordering comparison of a variable that is missing from the data, or
\* evaluated against null or non-object data, returns false for every literal.
C10_MissingOrdersFalse ==
    \A name \in VariableNames, op \in OrderingOperators, literal \in Literals :
        /\ result.state = "done"
        /\ expression = JsString(Comparison(name, op, literal))
        /\ Missing(name, result.given)
        => result.outcome = "returns" /\ result.value = FALSE

KeptOperators == {<<"=", "=">>, <<"!", "=">>, <<">", "=">>, <<"<", "=">>}

\* C11: a bare = is equality: "{v} = L" evaluates as "{v} == L" does, on the
\* same data, and the operators ==, !=, >= and <= come out of the operator
\* mapping as they went in.
C11_BareEqualsIsEquality ==
    \A name \in VariableNames, literal \in Literals :
        /\ result.state = "done" /\ expression = JsString(Comparison(name, <<"=">>, literal))
           => \E r \in {evaluateExpression(
                            JsString(Comparison(name, <<"=", "=">>, literal)), result.given)} :
                 /\ r.outcome = result.outcome
                 /\ r.value = result.value
                 /\ r.data = data
        /\ \A op \in KeptOperators :
              expression = JsString(Comparison(name, op, literal))
              => MapOperators(ReplaceVariables(expression.s, 1), 1)
                 = ThisAccess(name) \o <<" ">> \o op \o <<" ">> \o MapOperators(literal, 1)

\* "{v} = 5" has been evaluated on data that holds 5 for v, and is true.
C11_Witness ==
    /\ result.state = "done"
    /\ expression = JsString(Comparison(<<"v">>, <<"=">>, <<"5">>))
    /\ result.given = DataObject(<<"v">> :> JsNumber(5))
    /\ result.value = TRUE

---------------------------------------------------------------------------
(* Properties of groupFieldsByCategory *)

RECURSIVE ConcatFields(_)
ConcatFields(groups) ==
    IF groups = <<>> THEN <<>> ELSE groups[1].fields \o ConcatFields(Tail(groups))

\* The positions of fs a group starts at: the first, and every one whose
\* category is not the category of the field before it.
GroupStarts(fs) ==
    {i \in 1..Len(fs) : i = 1 \/ CategoryOf(fs[i]) # CategoryOf(fs[i - 1])}

RECURSIVE SizesBefore(_, _)
SizesBefore(groups, k) ==
    IF k = 0 THEN 0 ELSE Len(groups[k].fields) + SizesBefore(groups, k - 1)

CategoriesAABBA ==
    /\ Len(fields) = 5
    /\ \A i \in {1, 2, 5} : Prop(fields[i], "category") = Str("A")
    /\ \A i \in {3, 4} : Prop(fields[i], "category") = Str("B")

\* C12: groupFieldsByCategory is run-length grouping: a group starts exactly
\* at a field whose category (undefined read as "") is not the previous
\* field's; every group is non-empty and of one category, adjacent groups
\* differ in category, the groups' fields concatenated are the input, no
\* fields give no groups, and categories A, A, B, B, A give groups of sizes
\* 2, 2 and 1.
C12_RunLengthGrouping ==
    grouped.state = "done"
    => LET groups == grouped.groups
       IN  /\ {SizesBefore(groups, k - 1) + 1 : k \in 1..Len(groups)} = GroupStarts(fields)
           /\ \A k \in 1..Len(groups) :
                 /\ groups[k].fields # <<>>
                 /\ \A i \in 1..Len(groups[k].fields) :
                       CategoryOf(groups[k].fields[i]) = groups[k].category
           /\ \A k \in 1..(Len(groups) - 1) : groups[k].category # groups[k + 1].category
           /\ ConcatFields(groups) = fields
           /\ fields = <<>> => groups = <<>>
           /\ CategoriesAABBA
              => /\ Len(groups) = 3
                 /\ <<Len(groups[1].fields), Len(groups[2].fields), Len(groups[3].fields)>>
                    = <<2, 2, 1>>

\* Fields of categories A, A, B, B, A have been grouped into three groups.
C12_Witness ==
    /\ grouped.state = "done"
    /\ CategoriesAABBA
    /\ Len(grouped.groups) = 3

---------------------------------------------------------------------------
(* Properties of whole-form validation *)

Validated == validation.state = "done" /\ validation.step = 0

\* field.visible !== false, and field.visibleIf absent or true on d
VisibleFor(field, d) ==
    /\ Prop(field, "visible") # Bool(FALSE)
    /\ \/ Falsy(Prop(field, "visibleIf"))
       \/ evaluateExpression(ExpressionOf(Prop(field, "visibleIf")), d).value

Gated(field) == Prop(field, "visible") # Bool(FALSE) /\ ~Falsy(Prop(field, "visibleIf"))

SubmittedFor(field) == DataGet(submitted, KeyOf(Prop(field, "name").v))

\* The messages of the failures reported at a field's path, in report order.
RECURSIVE MessagesAt(_, _)
MessagesAt(issues, name) ==
    IF issues = <<>> THEN <<>>
    ELSE (IF issues[1].path = name THEN <<issues[1].message>> ELSE <<>>)
         \o MessagesAt(Tail(issues), name)

\* C13: a required field that is not visible for the submitted data (visible
\* is false, or visibleIf is false on the data) and whose submitted value is
\* empty has no failure at its path in whole-form validation.
C13_HiddenRequiredEmptyPasses ==
    Validated
    => \A i \in 1..Len(output.fields) :
          /\ IsRequired(output.fields[i])
          /\ ~VisibleFor(output.fields[i], submitted)
          /\ IsEmpty(SubmittedFor(output.fields[i]))
          => MessagesAt(validation.issues, Prop(output.fields[i], "name").v) = <<>>

\* C14: a required field gated by visibleIf whose gate is true on the
\* submitted data and whose submitted value is empty has exactly one failure
\* at its path in whole-form validation, "This field is required".
C14_VisibleRequiredEmptyFailsOnce ==
    Validated
    => \A i \in 1..Len(output.fields) :
          /\ IsRequired(output.fields[i])
          /\ Gated(output.fields[i])
          /\ VisibleFor(output.fields[i], submitted)
          /\ IsEmpty(SubmittedFor(output.fields[i]))
          => MessagesAt(validation.issues, Prop(output.fields[i], "name").v)
             = <<"This field is required">>

\* The email and regex validators of a text field that the compiler attaches.
FormatValidators(field) ==
    {ValidatorsOf(field)[k] : k \in
        {k \in 1..Len(ValidatorsOf(field)) :
            /\ BaseType(field) = "string"
            /\ \/ ValidatorsOf(field)[k].type = "email"
               \/ /\ ValidatorsOf(field)[k].type = "regex"
                  /\ ValidatorsOf(field)[k].regex \notin InvalidPatterns \cup {""}}}

FormatMessage(v) ==
    IF v.text # "" THEN v.text
    ELSE IF v.type = "email" THEN "Invalid email" ELSE "Invalid format"

\* A non-empty string the validator's pattern or the email format rejects.
Malformed(v, value) ==
    /\ value.t = "string" /\ value.s # <<>>
    /\ IF v.type = "email" THEN value.s \notin EmailStrings ELSE ~RegexTest(v.regex, value.s)

\* C15: required takes precedence over format: for a required field with an
\* email or regex validator, an empty value never yields the format message,
\* on the empty string the first failure at the field's path is "This field
\* is required" (one is reported whenever the field is unconditionally
\* visible), and a non-empty malformed value fails with the validator's
\* format message.
C15_RequiredBeforeFormat ==
    Validated
    => \A i \in 1..Len(output.fields) :
          LET field == output.fields[i]
              name == Prop(output.fields[i], "name").v
          IN  IsRequired(field)
              => \A v \in FormatValidators(field) :
                    /\ IsEmpty(SubmittedFor(field))
                       => FormatMessage(v) \notin Elements(MessagesAt(validation.issues, name))
                    /\ SubmittedFor(field) = JsString(<<>>)
                       => /\ MessagesAt(validation.issues, name) # <<>>
                             => MessagesAt(validation.issues, name)[1] = "This field is required"
                          /\ IsAlwaysVisible(field) /\ i = LastNamed(output.fields, name)
                             => MessagesAt(validation.issues, name) # <<>>
                    /\ Malformed(v, SubmittedFor(field)) /\ i = LastNamed(output.fields, name)
                       => FormatMessage(v) \in Elements(MessagesAt(validation.issues, name))

\* An empty required email field has been reported as required, and a
\* malformed required text field with its validator's message.
C15_Witness ==
    /\ Validated
    /\ DataGet(submitted, KeyOf("email")) = JsString(<<>>)
    /\ DataGet(submitted, KeyOf("secret")) = JsString(<<"a", "1">>)
    /\ MessagesAt(validation.issues, "email")
       = <<"This field is required", "This field is required">>
    /\ MessagesAt(validation.issues, "secret") = <<"Alpha only">>

\* C16: a field whose visibleIf is false on the submitted data has no
\* validation failure of any kind at its path, whatever value it carries.
C16_HiddenNeverFails ==
    Validated
    => \A i \in 1..Len(output.fields) :
          /\ ~Falsy(Prop(output.fields[i], "visibleIf"))
          /\ ~evaluateExpression(ExpressionOf(Prop(output.fields[i], "visibleIf")),
                                 submitted).value
          => MessagesAt(validation.issues, Prop(output.fields[i], "name").v) = <<>>

\* The last version of every name, in the order of fs.
RECURSIVE LastVersions(_, _)
LastVersions(fs, i) ==
    IF i > Len(fs) THEN <<>>
    ELSE (IF i = LastNamed(fs, Prop(fs[i], "name").v) THEN <<fs[i]>> ELSE <<>>)
         \o LastVersions(fs, i + 1)

\* The names fs holds in versions with different properties.
Redefined(fs) ==
    {Prop(fs[i], "name").v : i \in {i \in 1..Len(fs) :
        \E j \in 1..Len(fs) : Prop(fs[j], "name") = Prop(fs[i], "name") /\ fs[j] # fs[i]}}

\* C17: last page wins: for a name resolved on several pages the whole-form
\* schema (the field's rules and the enforcement of its required-ness) and
\* the defaults map are those of the last page's version alone, while every
\* step lists its own page's version.
C17_LastPageWins ==
    Validated
    => /\ \A name \in Redefined(output.fields) :
             /\ output.shape[name]
                = FieldSchema(output.fields[LastNamed(output.fields, name)])
             /\ output.defaultValues[name]
                = DefaultValueOf(output.fields[LastNamed(output.fields, name)])
             /\ MessagesAt(validation.issues, name)
                = MessagesAt(applyVisibilityValidation(output.shape, ShapeKeys(output.fields),
                                 LastVersions(output.fields, 1), submitted).issues, name)
       /\ \A i \in 1..Len(output.steps) :
             \E today \in Dates :
                output.steps[i].fields
                = resolvePageFields(config.pages[i], config.fields, today).fields

---------------------------------------------------------------------------
(* Properties of the steps *)

\* C18: generateRHFSchema returns one step per page, in page order: step i
\* has index i (counted from 0), page i's title ("" when it has none), its
\* description, layout and heading flag (false when absent), and exactly the
\* fields page i resolves to.
C18_OneStepPerPage ==
    output.state = "returned"
    => /\ Len(output.steps) = Len(config.pages)
       /\ \A i \in 1..Len(config.pages) :
             /\ output.steps[i].id = i - 1
             /\ output.steps[i].title
                = (IF config.pages[i].title = Undefined THEN Str("") ELSE config.pages[i].title)
             /\ output.steps[i].description = config.pages[i].description
             /\ output.steps[i].layout = config.pages[i].layout
             /\ output.steps[i].showCategoryHeadings
                = (IF config.pages[i].showCategoryHeadings = Undefined THEN Bool(FALSE)
                   ELSE config.pages[i].showCategoryHeadings)
             /\ \E today \in Dates :
                   output.steps[i].fields
                   = resolvePageFields(config.pages[i], config.fields, today).fields

\* Two pages have given two steps with field lists of their own, neither the
\* whole-form list.
C18_Witness ==
    /\ output.state = "returned"
    /\ Len(output.steps) = 2
    /\ output.steps[1].fields # output.steps[2].fields
    /\ output.steps[1].fields # <<>>
    /\ output.steps[2].fields # <<>>
    /\ output.steps[1].title # output.steps[2].title
    /\ \A i \in 1..2 : output.steps[i].fields # output.fields

StepValidated ==
    /\ validation.state = "done"
    /\ validation.step > 0
    /\ validation.schema \in {"ZodEffects", "ZodObject", "wrapper"}

\* The submission without the keys that are not among names.
Restrict(d, names) ==
    DataObject([key \in DOMAIN d.props \cap {KeyOf(name) : name \in names} |-> d.props[key]])

\* A value the field's schema accepts and the required-ness pass does not
\* take for empty.
ValidValue(schema, value) ==
    /\ ParseField(schema, value, "").status = "valid"
    /\ ~IsEmpty(ParseField(schema, value, "").value)

\* C19: the schema getStepSchema returns for a step constrains only the
\* step's field names: it answers the submission as it answers the step's
\* own keys alone, whatever the other steps' fields hold, it accepts valid
\* values of the step's fields, it reports failures at the step's names only,
\* and it is the same schema whether the refined schema, the object schema or
\* {baseSchema} was passed.
C19_StepSchemaIsLocal ==
    StepValidated
    => LET st == output.steps[validation.step]
           names == Elements(FieldNames(output.steps[validation.step].fields))
       IN  /\ \E r \in {stepSafeParse(
                            getStepSchema(st, FullSchema(validation.schema, output.shape)),
                            Restrict(submitted, names))} :
                 /\ r.success = validation.success
                 /\ r.issues = validation.issues
           /\ (\A name \in names : ValidValue(output.shape[name], DataGet(submitted, KeyOf(name))))
              => validation.success
           /\ \A k \in 1..Len(validation.issues) : validation.issues[k].path \in names
           /\ \A kind \in {"ZodEffects", "ZodObject", "wrapper"} :
                 getStepSchema(st, FullSchema(kind, output.shape))
                 = getStepSchema(st, FullSchema(validation.schema, output.shape))

\* The first step's schema, taken from the refined schema, has accepted a
\* submission whose email, a field of another step, is malformed.
C19_Witness ==
    /\ StepValidated
    /\ validation.schema = "ZodEffects"
    /\ validation.step = 1
    /\ validation.success
    /\ Len(output.steps) = 2
    /\ FieldNames(output.steps[1].fields) = <<"show", "secret">>
    /\ FieldNames(output.steps[2].fields) = <<"email", "amount">>
    /\ DataGet(submitted, KeyOf("secret")) = JsString(<<"a">>)
    /\ DataGet(submitted, KeyOf("email")) = JsString(<<"a">>)
    /\ DataGet(submitted, KeyOf("amount")) = JsNumber(155)

\* C20: getStepDefaultValues returns the restriction of the defaults map to
\* the step's field names: its keys are the step's names that are keys of the
\* map, each with the map's value.
C20_DefaultsRestricted ==
    stepDefaults.state = "done"
    => /\ DOMAIN stepDefaults.values
          = Elements(FieldNames(step.fields)) \cap DOMAIN allDefaults
       /\ \A name \in DOMAIN stepDefaults.values \cap DOMAIN allDefaults :
             stepDefaults.values[name] = allDefaults[name]

---------------------------------------------------------------------------
(* Properties of the compiled default values *)

\* The default value the specification gives a field: by base type class, an
\* array type keeping the default its definition declares.
DeclaredDefault(field) ==
    LET defaultValue == Prop(field, "defaultValue")
    IN  CASE BaseType(field) = "number" ->
                IF defaultValue = Undefined THEN Str("") ELSE NumberOf(defaultValue)
          [] BaseType(field) = "array" ->
                IF defaultValue = Undefined THEN Arr("") ELSE defaultValue
          [] BaseType(field) = "boolean" -> Coalesce(defaultValue, Bool(FALSE))
          [] BaseType(field) = "any" -> Str("")
          [] OTHER ->
                IF defaultValue.t = "array" THEN Str(defaultValue.v)
                ELSE Coalesce(defaultValue, Str(""))

\* C21: the default value of every compiled field follows its base type
\* class: numeric gives the declared default as a number or the empty string,
\* an array type the declared default or the empty sequence, boolean the
\* declared default or false, html the empty string, text the first element
\* of a declared sequence, else the declared default or the empty string.
C21_DefaultsFollowBaseType ==
    output.state = "returned"
    => \A n \in DOMAIN output.defaultValues :
          output.defaultValues[n]
          = DeclaredDefault(output.fields[LastNamed(output.fields, n)])

---------------------------------------------------------------------------
(* Properties of the dynamic titles *)

\* The title "<label> (<month name monthsAgo months before today>)".
MonthTitle(label, monthsAgo, today) ==
    Str(label \o " (" \o getPastMonthLabel(monthsAgo, today) \o ")")

\* C22: a resolved field whose name matches the numbered monthly-statement
\* pattern has for display title the label its definition gave it followed
\* by the month name in parentheses.
C22_TitleKeepsOriginalLabel ==
    Resolved /\ NoneDropped =>
        \A i \in 1..Len(page.fields) :
            LET ref == page.fields[i]
                f == resolved.fields[i]
            IN  /\ Prop(f, "name").v \in DOMAIN BankStatementMonths
                /\ MergedProp(ref, "displayName").t = "string"
                => \E today \in Dates :
                      Prop(f, "displayName")
                      = MonthTitle(MergedProp(ref, "displayName").v,
                                   BankStatementMonths[Prop(f, "name").v], today)

\* C22, amended: a resolved field whose name matches the numbered
\* monthly-statement pattern has the display title "Bank Statement (<month>)",
\* <month> being what getPastMonthLabel answers for the number in the name:
\* the fixed label stands in front whatever label the definition gave.
C22_TitleIsBankStatement ==
    Resolved =>
        \A i \in 1..Len(resolved.fields) :
            LET f == resolved.fields[i]
            IN  Prop(f, "name").v \in DOMAIN BankStatementMonths
                => \E today \in Dates :
                      Prop(f, "displayName")
                      = MonthTitle("Bank Statement",
                                   BankStatementMonths[Prop(f, "name").v], today)

\* A statement field that was given the label "Statement" has been resolved.
C22_Witness ==
    /\ Resolved /\ NoneDropped
    /\ \E i \in 1..Len(page.fields) :
          /\ Prop(resolved.fields[i], "name") = Str("bank_statement_t1")
          /\ MergedProp(page.fields[i], "displayName") = Str("Statement")
          /\ Prop(resolved.fields[i], "displayName") = Str("Bank Statement (December)")

---------------------------------------------------------------------------
(* Properties of getPastMonthLabel *)

\* C23: at every date the label of monthsAgo + 12 names the month the label
\* of monthsAgo names: 13 months ago reads as 1 month ago, 12 months ago as
\* the current month.
C23_WrapsAcrossYears ==
    \A n \in DOMAIN labels :
        n + 12 \in DOMAIN labels => labels[n + 12] = labels[n]

\* C24: at every date the labels of 1 and of 2 months ago name different
\* months.
C24_OneAndTwoDiffer ==
    {1, 2} \subseteq DOMAIN labels => labels[1] # labels[2]

---------------------------------------------------------------------------
(* Properties of concurrent validation *)

\* C25: two validations of different snapshots against one compiled schema
\* do not interfere: however their steps interleave, a call that has returned
\* answers what safeParse answers for its snapshot alone, and the schema and
\* the compiled field list are still what the compiler built.
C25_CallsDoNotInterfere ==
    output.state = "returned"
    => /\ \A c \in Callers :
             calls[c].pc = "done" => calls[c].result = safeParse(output, calls[c].data)
       /\ \E today \in Dates : output = generateRHFSchema(config, today, today, today)

\* The second call began while the first was inside its callback; the first
\* has returned the required failure its callback added and the second has
\* returned success.
C25_Witness ==
    /\ calls["second"].overlapped
    /\ calls["first"].pc = "done"
    /\ ~calls["first"].result.success
    /\ calls["first"].issues # <<>>
    /\ calls["second"].pc = "done"
    /\ calls["second"].result.success

---------------------------------------------------------------------------
(* Properties of the compiled groups *)

\* C26: the groups of the compiled output are groups per step: the fields of
\* every group come from one page, that is, the places a group takes in the
\* merged list lie within the places of one step's fields.
C26_GroupsStayWithinPages ==
    output.state = "returned"
    => \A k \in 1..Len(output.groupedFields) :
          \E i \in 1..Len(output.steps) :
             /\ SizesBefore(output.steps, i - 1) <= SizesBefore(output.groupedFields, k - 1)
             /\ SizesBefore(output.groupedFields, k) <= SizesBefore(output.steps, i)

---------------------------------------------------------------------------
(* Properties of the variable lookup *)

\* The values the literals of the comparisons denote; the literal '=' is left
\* out, the operator mapping rewrites it.
LiteralValue ==
    (<<"1">> :> JsNumber(1)) @@ (<<"5">> :> JsNumber(5))
    @@ (<<"'", "1", "'">> :> JsString(<<"1">>))
    @@ (<<"'", "a", "'">> :> JsString(<<"a">>))
    @@ (<<"t", "r", "u", "e">> :> JsBoolean(TRUE))

\* The JavaScript operator a comparison operator stands for.
OperatorMeant(op) == IF op = <<"=">> THEN <<"=", "=">> ELSE op

\* "{name} op literal" was evaluated and answered what key op literal is,
\* key being read from the data (the empty object for falsy data).
AnswersAsKey(name, op, literal, key) ==
    /\ result.state = "done"
    /\ expression = JsString(Comparison(name, op, literal))
    => /\ result.outcome = "returns"
       /\ result.value
          = ToBoolean(Apply(OperatorMeant(op), ThisGet(ThisOf(result.given), key),
                            LiteralValue[literal]))

---------------------------------------------------------------------------
(* Properties of required-ness by base type *)

\* C28: whole-form validation enforces required-ness for every base type
\* class: a required field that is not html and is visible for the submitted
\* data, whatever its base type, whose submitted value is undefined, null,
\* the empty string or an empty sequence makes validation fail, with a
\* failure at the field's path.  The gates of the form read the field show:
\* the forms looked at are those that have it.
C28_RequiredForEveryBaseType ==
    Validated /\ "show" \in NamesOf(output.fields)
    => \A i \in 1..Len(output.fields) :
          /\ IsRequired(output.fields[i])
          /\ BaseType(output.fields[i]) \in {"number", "array", "boolean", "string"}
          /\ VisibleFor(output.fields[i], submitted)
          /\ IsEmpty(SubmittedFor(output.fields[i]))
          => /\ ~validation.success
             /\ MessagesAt(validation.issues, Prop(output.fields[i], "name").v) # <<>>

---------------------------------------------------------------------------
(* Properties of step-wise against whole-form validation *)

\* C29: on a form whose field names each appear on one page only, the
\* whole-form schema accepts a submission exactly when, for every step, the
\* schema getStepSchema extracts for the step accepts the same submission.
C29_StepsAgreeWithForm ==
    Validated /\ PairwiseDistinct(FieldNames(output.fields))
    => (validation.success
        <=> \A i \in 1..Len(output.steps) :
               stepSafeParse(getStepSchema(output.steps[i],
                                           FullSchema("ZodEffects", output.shape)),
                             submitted).success)

---------------------------------------------------------------------------
(* Properties of the flat field list against the steps *)

\* C30: the flat field list of the compiled output is the concatenation, in
\* page order, of the steps' field lists, field for field: re-titling the
\* merged list leaves every field equal to the one its step holds.
C30_FlatListIsStepsConcatenated ==
    output.state = "returned"
    => output.fields = Flatten([i \in 1..Len(output.steps) |-> output.steps[i].fields])

=============================================================================
